---- MODULE Spec2Model ----
(***************************************************************************)
(* A model of the can_adapter library: the PushBus fan-out                 *)
(* (src/src/pushbus.rs), the Connection contract (src/src/connection.rs,   *)
(* src/src/sim.rs), the ISO-15765-2 engine (src/src/uds/iso15765.rs) and   *)
(* the J1939-21 transport protocol engine (src/src/j1939.rs), the SLCAN    *)
(* adapter (src/src/slcan.rs) and the UDS command builder                  *)
(* (src/src/uds/mod.rs).                                                   *)
(*                                                                         *)
(* The specifications share the variables:                                 *)
(*   Spec       the fan-out bus with its registry mutex, step by step      *)
(*   SpecSend   the same with an application thread calling send           *)
(*   SpecUntil  Connection::iter_until over one consumer and a clock       *)
(*   SpecIso    two ISO-TP endpoints over a loopback connection            *)
(*   SpecTp     a J1939TP sender and receiver over a loopback connection   *)
(*   SpecSim    the simulator's reader thread and the drop of a connection *)
(*   SpecEcho   the RP1210 send and its wait for the echo                  *)
(*   SpecFc     the ISO-TP sender and the flow control it waits for        *)
(*   SpecRx     the ISO-TP receiver over a scripted stream                 *)
(*   SpecCts    the J1939TP RTS/CTS sender and the answers of its peer     *)
(*   SpecHdr    the J1939 header: new_packet and the accessors             *)
(*   SpecRtp    receive_tp over an arbitrary stream of frames              *)
(*   SpecT1     receive_tp with the arrival times of the data frames       *)
(*   SpecScan   the ISO-TP receiver over an arbitrary stream of frames     *)
(*   SpecSeq    the ISO-TP sender of a request of more than 15 frames      *)
(*   SpecSlcan  Slcan::send and the reader/writer thread of the adapter    *)
(*   SpecUds    the UDS command builder                                    *)
(* A frame is [some, id, payload]: Option<Packet>, some = FALSE being the  *)
(* heartbeat None.  Timestamps and channels are not modelled.              *)
(***************************************************************************)
EXTENDS Integers, Sequences, FiniteSets, TLC

VARIABLES
    \* ---- PushBus (pushbus.rs) ----
    busIters,   \* handle -> the registry its iters field points to (Arc<Mutex<Vec<..>>>)
    iters,      \* registry -> Vec<PushBusIter>: the consumers registered, in order
    lock,       \* registry -> the thread holding its mutex, or "free"
    data,       \* consumer -> its FIFO (VecDeque<Option<T>>)
    running,    \* consumer -> its running flag (AtomicBool)
    cpc,        \* consumer -> "none" (not created) | "idle" (owned by a thread) | "dropped"
    ended,      \* consumer -> one of its next() calls has returned None (end of stream)
    ppc,        \* publisher thread -> [pc, item, idx, reg]: where its push is
    seq,        \* the simulator reader's counter (sim.rs run)
    sent,       \* the latest Connection::send: [called, frame, echo]
    \* ---- history of the bus, read by the properties only ----
    log,        \* every item pushed, in the order the pushes took the registry mutex
    sub,        \* consumer -> Len(log) when its iter() registered it
    obs,        \* consumer -> the items its next() calls returned from its FIFO
    \* ---- Connection::iter_until (connection.rs) ----
    now,        \* the monotonic clock
    upc,        \* the iter_until stream: "run" | "done"
    uend,       \* the deadline captured by iter_until
    uout,       \* the frames the stream has yielded
    upolls,     \* empty polls the stream has swallowed after the deadline, capped
    \* ---- the protocol engines over a loopback connection ----
    wire,       \* every frame the loopback connection has published, in order
    streams,    \* stream -> [open, q]: the iter_for streams of the protocol threads
    proc        \* thread -> its local variables and the statement it is at

busVars == <<busIters, iters, lock, data, running, cpc, ended, ppc, seq, sent>>
histVars == <<log, sub, obs>>
untilVars == <<now, upc, uend, uout, upolls>>
protoVars == <<wire, streams, proc>>
vars == <<busVars, histVars, untilVars, protoVars>>

(***************************************************************************)
(* Bounds of the model.                                                    *)
(***************************************************************************)
MaxConsumers == 2
MaxPush == 2

Consumers == 1..MaxConsumers
Registries == {1, 2}
Handles == {"bus", "clone"}
Publishers == {"reader", "app"}

(***************************************************************************)
(* u32 arithmetic.                                                         *)
(***************************************************************************)
RECURSIVE BitOr(_, _)
BitOr(a, b) ==
    IF a = 0 THEN b
    ELSE IF b = 0 THEN a
    ELSE (IF a % 2 = 1 \/ b % 2 = 1 THEN 1 ELSE 0) + 2 * BitOr(a \div 2, b \div 2)

RECURSIVE BitAnd(_, _)
BitAnd(a, b) ==
    IF a = 0 \/ b = 0 THEN 0
    ELSE (IF a % 2 = 1 /\ b % 2 = 1 THEN 1 ELSE 0) + 2 * BitAnd(a \div 2, b \div 2)

RECURSIVE Pow2(_)
Pow2(n) == IF n = 0 THEN 1 ELSE 2 * Pow2(n - 1)

\* x << n and x >> n on u32; x as u8.  The bits shifted out of the 32 are dropped
\* before the multiplication (TLC's integers are 32-bit signed: every value of the
\* model is a 29-bit id or smaller).
Shl(x, n) == (x % Pow2(32 - n)) * Pow2(n)
Shr(x, n) == x \div Pow2(n)
AsU8(x) == x % 256

(***************************************************************************)
(* Frames.                                                                 *)
(***************************************************************************)
NoneItem == [some |-> FALSE, id |-> 0, payload |-> <<>>]
SomePacket(id, payload) == [some |-> TRUE, id |-> id, payload |-> payload]

\* J1939Packet accessors
source(id) == AsU8(BitAnd(id, 255))
dest(id) == AsU8(BitAnd(255, Shr(id, 8)))
priority(id) == AsU8(Shr(id, 26))
pgn(id) ==
    LET p == BitAnd(65535, Shr(id, 8))
    IN  IF p < 61440 THEN BitOr(p, dest(id)) ELSE p

\* J1939Packet::new_packet: the id it composes
new_packet_id(prio, pg, da, sa) ==
    BitOr(BitOr(BitOr(Shl(prio, 26), Shl(pg, 8)),
                IF pg >= 61440 THEN 0 ELSE Shl(da, 8)),
          sa)

RECURSIVE BeBytes(_, _)
\* the n low bytes of x, most significant first (u64::to_be_bytes for n = 8)
BeBytes(x, n) == IF n = 0 THEN <<>> ELSE Append(BeBytes(x \div 256, n - 1), x % 256)

\* the frame the simulator's reader publishes: priority 6, PGN 0xFEF1, the counter
SimFrame(n) == SomePacket(new_packet_id(6, 65265, 0, 0), BeBytes(n, 8))

\* SimulatedConnection::send: the echo it rebuilds from the frame's J1939 fields
SimEcho(p) ==
    SomePacket(new_packet_id(priority(p.id), pgn(p.id), dest(p.id), source(p.id)),
               p.payload)

\* the frames the application sends in Spec: an ISO-TP single frame on 0x18DA00F9,
\* and the same frame on data page 1 (0x19DA00F9)
SendFrames ==
    { SomePacket(416940281, <<3, 1, 2, 3, 255, 255, 255, 255>>),
      SomePacket(433717497, <<3, 1, 2, 3, 255, 255, 255, 255>>) }

(***************************************************************************)
(* PushBus.                                                                *)
(***************************************************************************)
\* PushBus::clone: the clone's iters is the same Arc
clone_iters_fresh(r) == r + 1
clone_iters(r) == r

\* iters.retain(|i| i.running.load())
retain_all(v, run) == v
retain(v, run) == LET Keep(c) == run[c] IN SelectSeq(v, Keep)

\* items.push_back(item.clone())
push_front(q, item) == <<item>> \o q
push_back(q, item) == Append(q, item)

\* VecDeque::push_back never waits: the FIFO is unbounded
push_back_bounded(q) == Len(q) < 1
push_back_ready(q) == TRUE

\* iters.iter_mut().for_each: the index of the slot visited after idx
for_each_skip(idx) == idx + 2
for_each_next(idx) == idx + 1

\* what PushBusIter::next returns for the front v of a running slot's FIFO
\* (v = <<>>: the FIFO was empty): Some(item) or the poll tick Some(None)
\* [kind |-> "end"]: None; "tick": Some(None) of an empty poll; "item": Some(value)
next_ends_when_empty(v) ==
    IF v = <<>> THEN [kind |-> "end", value |-> NoneItem]
    ELSE [kind |-> "item", value |-> v[1]]
next_result(v) ==
    IF v = <<>> THEN [kind |-> "tick", value |-> NoneItem]
    ELSE [kind |-> "item", value |-> v[1]]

\* the handles of the threads: the reader thread publishes through the clone it was
\* spawned with (sim.rs new), send publishes through the connection's own bus
\* (sim.rs send), and iter() is called on both, alternately (pushbus.rs test_clone:
\* i1 = pb1.iter(), i2 = pb2.iter())
ReaderHandle == "clone"
SendHandle == "bus"
IterHandle(c) == IF c % 2 = 1 THEN "bus" ELSE "clone"

IdlePush == [pc |-> "idle", item |-> NoneItem, idx |-> 0, reg |-> 0]
NoSend == [called |-> FALSE, frame |-> NoneItem, echo |-> NoneItem]

InitUntil ==
    /\ now = 0
    /\ upc = "off"
    /\ uend = 0
    /\ uout = <<>>
    /\ upolls = 0

InitBus ==
    /\ busIters = [h \in Handles |-> IF h = "bus" THEN 1 ELSE clone_iters(1)]
    /\ iters = [r \in Registries |-> <<>>]
    /\ lock = [r \in Registries |-> "free"]
    /\ data = [c \in Consumers |-> <<>>]
    /\ running = [c \in Consumers |-> FALSE]
    /\ cpc = [c \in Consumers |-> "none"]
    /\ ended = [c \in Consumers |-> FALSE]
    /\ ppc = [t \in Publishers |-> IdlePush]
    /\ seq = 0
    /\ sent = NoSend
    /\ log = <<>>
    /\ sub = [c \in Consumers |-> 0]
    /\ obs = [c \in Consumers |-> <<>>]

\* no protocol thread
InitProto ==
    /\ wire = <<>>
    /\ streams = <<>>
    /\ proc = <<>>

Init == InitBus /\ InitUntil /\ InitProto

\* PushBus::iter through handle h: a fresh slot, registered under the registry mutex
IterRegister(h) ==
    /\ lock[busIters[h]] = "free"
    /\ \E c \in Consumers :
        /\ cpc[c] = "none"
        /\ h = IterHandle(c)
        /\ \A d \in Consumers : d < c => cpc[d] # "none"
        /\ iters' = [iters EXCEPT ![busIters[h]] = Append(@, c)]
        /\ data' = [data EXCEPT ![c] = <<>>]
        /\ running' = [running EXCEPT ![c] = TRUE]
        /\ cpc' = [cpc EXCEPT ![c] = "idle"]
        /\ sub' = [sub EXCEPT ![c] = Len(log)]
    /\ UNCHANGED <<busIters, lock, ended, ppc, seq, sent, log, obs>>

Iter(h) == IterRegister(h) /\ UNCHANGED <<untilVars, protoVars>>

\* PushBus::push, first part: take the registry mutex and drop the closed slots
PushStart(t, h, item) ==
    /\ ppc[t].pc = "idle"
    /\ lock[busIters[h]] = "free"
    /\ Len(log) < MaxPush
    /\ LET r == busIters[h]
           kept == retain(iters[r], running)
       IN  /\ iters' = [iters EXCEPT ![r] = kept]
           /\ IF kept = <<>>
              THEN /\ ppc' = [ppc EXCEPT ![t] = IdlePush]
                   /\ lock' = lock
              ELSE /\ ppc' = [ppc EXCEPT ![t] =
                                [pc |-> "push", item |-> item, idx |-> 1, reg |-> r]]
                   /\ lock' = [lock EXCEPT ![r] = t]
    /\ log' = Append(log, item)
    /\ UNCHANGED <<busIters, data, running, cpc, ended>>
    /\ UNCHANGED <<sub, obs>>
    /\ UNCHANGED <<untilVars, protoVars>>

\* the adapter's reader thread publishes a frame or a heartbeat
ReaderPush ==
    \/ /\ PushStart("reader", ReaderHandle, SimFrame(seq))
       /\ seq' = seq + 1
       /\ UNCHANGED sent
    \/ /\ PushStart("reader", ReaderHandle, NoneItem)
       /\ UNCHANGED <<seq, sent>>

\* SimulatedConnection::send by the application thread: push the echo, return it
Send(p) ==
    /\ ~sent.called
    /\ PushStart("app", SendHandle, SimEcho(p))
    /\ sent' = [called |-> TRUE, frame |-> p, echo |-> SimEcho(p)]
    /\ UNCHANGED seq

\* whether publisher t, inside push, can take its next step
PushReady(t) ==
    /\ ppc[t].pc = "push"
    /\ ppc[t].idx <= Len(iters[ppc[t].reg])
    /\ push_back_ready(data[iters[ppc[t].reg][ppc[t].idx]])

\* PushBus::push, the for_each: append the item to the next slot; after the last
\* slot the registry mutex is released
PushSlot(t) ==
    /\ PushReady(t)
    /\ LET r == ppc[t].reg
           c == iters[r][ppc[t].idx]
           nxt == for_each_next(ppc[t].idx)
       IN  /\ data' = [data EXCEPT ![c] = push_back(@, ppc[t].item)]
           /\ IF nxt > Len(iters[r])
              THEN /\ ppc' = [ppc EXCEPT ![t] = IdlePush]
                   /\ lock' = [lock EXCEPT ![r] = "free"]
              ELSE /\ ppc' = [ppc EXCEPT ![t].idx = nxt]
                   /\ lock' = lock
    /\ UNCHANGED <<busIters, iters, running, cpc, ended, seq, sent>>
    /\ UNCHANGED <<histVars, untilVars, protoVars>>

\* PushBus::close through handle h
Close(h) ==
    /\ lock[busIters[h]] = "free"
    /\ running' = [c \in Consumers |->
                     IF \E i \in 1..Len(iters[busIters[h]]) : iters[busIters[h]][i] = c
                     THEN FALSE ELSE running[c]]
    /\ UNCHANGED <<busIters, iters, lock, data, cpc, ended, ppc, seq, sent>>
    /\ UNCHANGED <<log, sub, obs>>
    /\ UNCHANGED <<untilVars, protoVars>>

\* PushBusIter::next: None when the running flag is cleared; else the front of the
\* FIFO, or the poll tick Some(None) when it is empty.  The call's only shared
\* accesses are the flag load and the pop under the slot's mutex, so it is one step.
\* The sleep field only decides whether the thread sleeps 1 ms before a tick: it
\* changes no result and is left out.
NextCall(c) ==
    /\ cpc[c] = "idle"
    /\ IF running[c]
       THEN LET v == IF data[c] = <<>> THEN <<>> ELSE <<Head(data[c])>>
                r == next_result(v)
            IN  /\ ended' = [ended EXCEPT ![c] = @ \/ r.kind = "end"]
                /\ data' = [data EXCEPT ![c] = IF v = <<>> THEN <<>> ELSE Tail(@)]
                /\ obs' = [obs EXCEPT ![c] =
                             IF r.kind = "item" THEN Append(@, r.value) ELSE @]
       ELSE /\ ended' = [ended EXCEPT ![c] = TRUE]
            /\ UNCHANGED <<data, obs>>
    /\ UNCHANGED <<busIters, iters, lock, running, cpc, ppc, seq, sent>>
    /\ UNCHANGED <<log, sub>>

IterNext(c) == NextCall(c) /\ UNCHANGED <<untilVars, protoVars>>

\* Drop for PushBusIter: the consumer's owner drops the iterator
DropIter(c) ==
    /\ cpc[c] = "idle"
    /\ running' = [running EXCEPT ![c] = FALSE]
    /\ cpc' = [cpc EXCEPT ![c] = "dropped"]
    /\ UNCHANGED <<busIters, iters, lock, data, ended, ppc, seq, sent>>
    /\ UNCHANGED <<histVars, untilVars, protoVars>>

Next ==
    \/ \E h \in Handles : Iter(h)
    \/ ReaderPush
    \/ \E t \in Publishers : PushSlot(t)
    \/ \E h \in Handles : Close(h)
    \/ \E c \in Consumers : IterNext(c)
    \/ \E c \in Consumers : DropIter(c)

Spec == Init /\ [][Next]_vars

\* the bus with an application thread that calls Connection::send
NextSend ==
    \/ Next
    \/ \E p \in SendFrames : Send(p)

SpecSend == Init /\ [][NextSend]_vars

(***************************************************************************)
(* Connection::iter_until and iter_for (connection.rs): the stream         *)
(* self.iter().filter(|o| o.is_some()).map_while(deadline check), polled   *)
(* by the thread that owns it, over a bus whose reader publishes frames    *)
(* and heartbeats and which may be closed.                                 *)
(***************************************************************************)
MaxNow == 3
MaxDuration == 2
MaxPolls == 2

\* the consumer that iter() registers for the stream: the first of the bus
UntilConsumer == 1

InitUntilRun ==
    /\ InitBus
    /\ InitProto
    /\ now = 0
    /\ upc = "new"
    /\ uend = 0
    /\ uout = <<>>
    /\ upolls = 0

\* iter_for(d): iter_until(Instant::now() + d), which registers the consumer
IterFor(d) ==
    /\ upc = "new"
    /\ IterRegister(SendHandle)
    /\ uend' = now + d
    /\ upc' = "run"
    /\ UNCHANGED <<now, uout, upolls, protoVars>>

\* the monotonic clock advances
Tick ==
    /\ now < MaxNow
    /\ now' = now + 1
    /\ UNCHANGED <<busVars, histVars, upc, uend, uout, upolls, protoVars>>

\* map_while's closure on a frame o that passed the filter, at clock reading t
map_while_deadline(t, end, o) == IF t > end THEN NoneItem ELSE o

\* one poll of the stream: one next() of the underlying consumer.  None ends the
\* stream; Some(None), a tick or a heartbeat, is dropped by the filter, which polls
\* again; a frame reaches the deadline check of map_while.
UntilPoll ==
    /\ upc = "run"
    /\ NextCall(UntilConsumer)
    /\ LET c == UntilConsumer
           front == IF data[c] = <<>> THEN NoneItem ELSE Head(data[c])
       IN  IF ~running[c]
           THEN upc' = "done" /\ UNCHANGED <<uout, upolls>>
           ELSE IF ~front.some
           THEN /\ upolls' = IF now > uend /\ upolls < MaxPolls THEN upolls + 1 ELSE upolls
                /\ UNCHANGED <<upc, uout>>
           ELSE LET r == map_while_deadline(now, uend, front)
                IN  /\ upc' = IF r.some THEN "run" ELSE "done"
                    /\ uout' = IF r.some THEN Append(uout, r) ELSE uout
                    /\ UNCHANGED upolls
    /\ UNCHANGED <<now, uend, protoVars>>

NextUntil ==
    \/ \E d \in 0..MaxDuration : IterFor(d)
    \/ Tick
    \/ ReaderPush
    \/ PushSlot("reader")
    \/ \E h \in Handles : Close(h)
    \/ UntilPoll

\* the thread that owns the stream keeps polling it, and the clock keeps advancing
SpecUntil ==
    /\ InitUntilRun
    /\ [][NextUntil]_vars
    /\ WF_vars(UntilPoll)
    /\ WF_vars(Tick)

(***************************************************************************)
(* The loopback connection of the protocol threads (sim.rs): send pushes   *)
(* the echo to every registered stream, the reader thread pushes its       *)
(* counter frames.  A stream is an iter_for stream: the heartbeats are     *)
(* filtered out of it, and its deadline is the Timeout step of its reader. *)
(* The push is one step here; its steps are those of Spec.                 *)
(***************************************************************************)
MaxNoise == 1

ClosedStream == [open |-> FALSE, q |-> <<>>]
OpenStream == [open |-> TRUE, q |-> <<>>]

\* PushBus::push of Some(frame) on the streams st
Published(st, frame) ==
    [k \in DOMAIN st |-> IF st[k].open THEN [st[k] EXCEPT !.q = Append(@, frame)] ELSE st[k]]

\* Connection::send on the loopback: the echo is pushed
LoopSend(st, frame) == Published(st, SimEcho(frame))

Min(a, b) == IF a < b THEN a ELSE b

(***************************************************************************)
(* Iso15765 (uds/iso15765.rs).                                             *)
(***************************************************************************)
MaxIsoLen == 22
\* the longest transfer the 12-bit length field of a first frame can announce
MaxIsoTransfer == 4095

IsoPgn == 55808
TesterAddress == 249
EcuAddress == 0

Endpoints == {"X", "Y"}
Peer(e) == IF e = "X" THEN "Y" ELSE "X"
\* Iso15765::new(connection, pgn, duration, sa, da) of each endpoint
Sa(e) == IF e = "X" THEN TesterAddress ELSE EcuAddress
Da(e) == IF e = "X" THEN EcuAddress ELSE TesterAddress
send_header(e) == BitOr(BitOr(BitOr(402653184, Shl(IsoPgn, 8)), Shl(Da(e), 8)), Sa(e))
receive_header(e) == BitOr(BitOr(Shl(IsoPgn, 8), Shl(Sa(e), 8)), Da(e))

\* the low 24 bits of an id
Low24(id) == BitAnd(id, 16777215)

Pad8(payload) ==
    IF Len(payload) < 8 THEN payload \o [i \in 1..(8 - Len(payload)) |-> 255] ELSE payload

\* Iso15765::send, request.len() <= 8
SingleFrame(request) == Pad8(<<AsU8(Len(request))>> \o request)

\* transport_send: the first frame, the number of frames, a consecutive frame
FirstFrame(request) ==
    BeBytes(BitOr(4096, Len(request) % 65536), 2) \o SubSeq(request, 1, 6)

transport_frames_short(size) == size \div 7
transport_frames(size) == 1 + size \div 7

ConsecutiveFrame_skip_zero(request, sequence) ==
    LET offset == 6 + (sequence - 1) * 7
        end == Min(7 + offset, Len(request))
    IN  Pad8(<<BitOr(32, 1 + ((sequence - 1) % 15))>> \o SubSeq(request, offset + 1, end))
ConsecutiveFrame(request, sequence) ==
    LET offset == 6 + (sequence - 1) * 7
        end == Min(7 + offset, Len(request))
    IN  Pad8(<<BitOr(32, BitAnd(AsU8(sequence), 15))>> \o SubSeq(request, offset + 1, end))

\* transport_receive: the flow control frame, the length field, the frames to take
FlowControl == <<48, 0, 0, 255, 255, 255, 255, 255>>
FirstFrameLen(payload) == BitAnd(payload[1] * 256 + payload[2], 4095)
receive_frames(len) == len \div 7
truncate(v, len) == IF Len(v) > len THEN SubSeq(v, 1, len) ELSE v

\* Iso15765::receive: the predicate of find, and the data of a single frame
receive_find_any(e, p) ==
    Low24(p.id) = receive_header(e)
receive_find(e, p) ==
    /\ Low24(p.id) = receive_header(e)
    /\ BitAnd(p.payload[1], 240) = 0 \/ BitAnd(p.payload[1], 240) = 16
IsSingle(p) == BitAnd(p.payload[1], 240) = 0
SingleData(p) == SubSeq(p.payload, 2, 1 + p.payload[1])

\* the statements of send_receive, in order, and those of the responding thread of
\* tests::send_receive, whose stream is created before it is spawned
send_receive_unregistered == <<"send", "iter", "receive">>
send_receive_order == <<"iter", "send", "receive">>
responder_order == <<"receive", "respond", "send">>

\* the request bytes of length n, and the responder's answer to a request
IsoRequest(n) == [i \in 1..n |-> (i * 37 + n) % 253]
Respond(rx) == [i \in 1..Len(rx) |-> AsU8(rx[i] + 3)]
IsoLens == 1..MaxIsoLen

StreamIds == Endpoints \X {"iter", "fc", "rx"}

IsoProc(prog, request) ==
    [pc |-> "next", prog |-> prog, request |-> request, sequence |-> 0,
     found |-> NoneItem, result |-> <<>>, taken |-> 0,
     got |-> FALSE, out |-> <<>>, err |-> ""]

InitIso ==
    /\ InitBus
    /\ InitUntil
    /\ wire = <<>>
    /\ streams = [k \in StreamIds |-> IF k = <<"Y", "iter">> THEN OpenStream ELSE ClosedStream]
    /\ \E n \in IsoLens, present \in BOOLEAN :
          proc = [e \in Endpoints |->
                    IF e = "X" THEN IsoProc(send_receive_order, IsoRequest(n))
                    ELSE IsoProc(IF present THEN responder_order ELSE <<>>, <<>>)]

At(e, stmt) ==
    /\ proc[e].pc = "next"
    /\ proc[e].prog # <<>>
    /\ Head(proc[e].prog) = stmt

IsoFrame(e, payload) == SomePacket(send_header(e), payload)

\* the stream a thread is reading, if it is waiting for a frame
Awaited(e) ==
    IF proc[e].pc = "ts_fc" THEN <<e, "fc">>
    ELSE IF At(e, "receive") THEN <<e, "iter">>
    ELSE IF proc[e].pc = "tr_take" /\ proc[e].taken < receive_frames(FirstFrameLen(proc[e].found.payload))
    THEN <<e, "rx">>
    ELSE <<e, "none">>
Waiting(e) == Awaited(e)[2] # "none"
Finished(e) == proc[e].pc = "failed" \/ (proc[e].pc = "next" /\ proc[e].prog = <<>>)

IsoFrameUnchanged == UNCHANGED <<busVars, histVars, untilVars>>

\* let mut iter = self.connection.iter_for(self.duration)
IsoIter(e) ==
    /\ At(e, "iter")
    /\ streams' = [streams EXCEPT ![<<e, "iter">>] = OpenStream]
    /\ proc' = [proc EXCEPT ![e].prog = Tail(@)]
    /\ UNCHANGED wire
    /\ IsoFrameUnchanged

\* send, request.len() <= 8: connection.send of the single frame
IsoSendSingle(e) ==
    /\ At(e, "send")
    /\ Len(proc[e].request) <= 8
    /\ LET f == IsoFrame(e, SingleFrame(proc[e].request))
       IN  /\ streams' = LoopSend(streams, f)
           /\ wire' = Append(wire, SimEcho(f))
    /\ proc' = [proc EXCEPT ![e].pc = "ret"]
    /\ IsoFrameUnchanged

\* transport_send: flow_control_stream = iter_for(2 s), before the first frame is sent
IsoOpenFc(e) ==
    /\ At(e, "send")
    /\ Len(proc[e].request) > 8
    /\ streams' = [streams EXCEPT ![<<e, "fc">>] = OpenStream]
    /\ proc' = [proc EXCEPT ![e].pc = "ts_ff"]
    /\ UNCHANGED wire
    /\ IsoFrameUnchanged

\* transport_send: connection.send(&first_frame)
IsoFirstFrame(e) ==
    /\ proc[e].pc = "ts_ff"
    /\ LET f == IsoFrame(e, FirstFrame(proc[e].request))
       IN  /\ streams' = LoopSend(streams, f)
           /\ wire' = Append(wire, SimEcho(f))
    /\ proc' = [proc EXCEPT ![e].pc = "ts_fc"]
    /\ IsoFrameUnchanged

\* transport_send: flow_control_stream.find(id matches), one frame of the stream
IsoFlowControl(e) ==
    /\ proc[e].pc = "ts_fc"
    /\ streams[<<e, "fc">>].q # <<>>
    /\ LET p == Head(streams[<<e, "fc">>].q)
       IN  /\ streams' = [streams EXCEPT ![<<e, "fc">>].q = Tail(@)]
           /\ IF Low24(p.id) # receive_header(e)
              THEN UNCHANGED proc
              ELSE IF p.payload[1] = 127
              THEN proc' = [proc EXCEPT ![e].pc = "failed", ![e].err = "NACK"]
              ELSE IF p.payload[1] # 48
              THEN proc' = [proc EXCEPT ![e].pc = "failed", ![e].err = "Unexpected"]
              ELSE proc' = [proc EXCEPT ![e].pc = "ts_cf", ![e].sequence = 1]
    /\ UNCHANGED wire
    /\ IsoFrameUnchanged

\* transport_send: for sequence in 1..frames, connection.send(&consecutive)
IsoConsecutive(e) ==
    /\ proc[e].pc = "ts_cf"
    /\ proc[e].sequence < transport_frames(Len(proc[e].request))
    /\ LET f == IsoFrame(e, ConsecutiveFrame(proc[e].request, proc[e].sequence))
       IN  /\ streams' = LoopSend(streams, f)
           /\ wire' = Append(wire, SimEcho(f))
    /\ proc' = [proc EXCEPT ![e].sequence = @ + 1]
    /\ IsoFrameUnchanged

\* send returns Ok(()); transport_send's flow_control_stream is dropped
IsoSendReturn(e) ==
    /\ \/ proc[e].pc = "ret"
       \/ /\ proc[e].pc = "ts_cf"
          /\ proc[e].sequence >= transport_frames(Len(proc[e].request))
    /\ streams' = [streams EXCEPT ![<<e, "fc">>] = ClosedStream]
    /\ proc' = [proc EXCEPT ![e].pc = "next", ![e].prog = Tail(@)]
    /\ UNCHANGED wire
    /\ IsoFrameUnchanged

\* receive: iter.find(predicate), one frame of the stream; a single frame is the
\* result, a first frame goes to transport_receive
IsoFind(e) ==
    /\ At(e, "receive")
    /\ streams[<<e, "iter">>].q # <<>>
    /\ LET p == Head(streams[<<e, "iter">>].q)
       IN  /\ streams' = [streams EXCEPT ![<<e, "iter">>].q = Tail(@)]
           /\ IF ~receive_find(e, p)
              THEN UNCHANGED proc
              ELSE IF IsSingle(p)
              THEN proc' = [proc EXCEPT ![e].found = p, ![e].got = TRUE,
                                        ![e].out = SingleData(p), ![e].prog = Tail(@)]
              ELSE proc' = [proc EXCEPT ![e].found = p, ![e].pc = "tr_iter"]
    /\ UNCHANGED wire
    /\ IsoFrameUnchanged

\* transport_receive: stream = iter_for(duration)
IsoOpenRx(e) ==
    /\ proc[e].pc = "tr_iter"
    /\ streams' = [streams EXCEPT ![<<e, "rx">>] = OpenStream]
    /\ proc' = [proc EXCEPT ![e].pc = "tr_fc"]
    /\ UNCHANGED wire
    /\ IsoFrameUnchanged

\* transport_receive: send the flow control, start the result with the first frame
IsoSendFc(e) ==
    /\ proc[e].pc = "tr_fc"
    /\ LET f == IsoFrame(e, FlowControl)
       IN  /\ streams' = LoopSend(streams, f)
           /\ wire' = Append(wire, SimEcho(f))
    /\ proc' = [proc EXCEPT ![e].pc = "tr_take", ![e].taken = 0,
                            ![e].result = SubSeq(proc[e].found.payload, 3,
                                                 Len(proc[e].found.payload))]
    /\ IsoFrameUnchanged

\* transport_receive: stream.filter(id matches).take(frames), one frame of the stream
IsoTake(e) ==
    /\ proc[e].pc = "tr_take"
    /\ proc[e].taken < receive_frames(FirstFrameLen(proc[e].found.payload))
    /\ streams[<<e, "rx">>].q # <<>>
    /\ LET p == Head(streams[<<e, "rx">>].q)
       IN  /\ streams' = [streams EXCEPT ![<<e, "rx">>].q = Tail(@)]
           /\ IF Low24(p.id) = receive_header(e)
              THEN proc' = [proc EXCEPT ![e].taken = @ + 1,
                                        ![e].result = @ \o SubSeq(p.payload, 2, Len(p.payload))]
              ELSE UNCHANGED proc
    /\ UNCHANGED wire
    /\ IsoFrameUnchanged

\* transport_receive returns: result.truncate(len), Ok(Some(result))
IsoReceiveReturn(e) ==
    /\ proc[e].pc = "tr_take"
    /\ proc[e].taken = receive_frames(FirstFrameLen(proc[e].found.payload))
    /\ streams' = [streams EXCEPT ![<<e, "rx">>] = ClosedStream]
    /\ proc' = [proc EXCEPT ![e].pc = "next", ![e].prog = Tail(@), ![e].got = TRUE,
                            ![e].out = truncate(proc[e].result,
                                                FirstFrameLen(proc[e].found.payload))]
    /\ UNCHANGED wire
    /\ IsoFrameUnchanged

\* the responding thread of tests::send_receive: tx = rx.iter().map(|u| u + 3)
IsoRespond(e) ==
    /\ At(e, "respond")
    /\ proc' = [proc EXCEPT ![e].request = Respond(proc[e].out), ![e].prog = Tail(@)]
    /\ UNCHANGED <<wire, streams>>
    /\ IsoFrameUnchanged

\* the deadline of the stream a thread is reading passes.  It is taken only when the
\* stream is empty and no other thread is about to publish: the timeouts are seconds,
\* the steps of a thread are not.  find returns None: an error; take ends early:
\* transport_receive returns what it has.
IsoTimeout(e) ==
    /\ Waiting(e)
    /\ streams[Awaited(e)].q = <<>>
    /\ \A o \in Endpoints \ {e} : Finished(o) \/ (Waiting(o) /\ streams[Awaited(o)].q = <<>>)
    /\ IF proc[e].pc = "ts_fc"
       THEN /\ proc' = [proc EXCEPT ![e].pc = "failed", ![e].err = "No response to"]
            /\ UNCHANGED streams
       ELSE IF proc[e].pc = "tr_take"
       THEN /\ proc' = [proc EXCEPT ![e].pc = "next", ![e].prog = Tail(@), ![e].got = TRUE,
                                    ![e].out = truncate(proc[e].result,
                                                        FirstFrameLen(proc[e].found.payload))]
            /\ streams' = [streams EXCEPT ![<<e, "rx">>] = ClosedStream]
       ELSE /\ proc' = [proc EXCEPT ![e].pc = "failed", ![e].err = "No response"]
            /\ UNCHANGED streams
    /\ UNCHANGED wire
    /\ IsoFrameUnchanged

\* the simulator's reader thread publishes its counter frame
LoopNoise ==
    /\ seq < MaxNoise
    /\ seq' = seq + 1
    /\ streams' = Published(streams, SimFrame(seq))
    /\ wire' = Append(wire, SimFrame(seq))
    /\ UNCHANGED <<busIters, iters, lock, data, running, cpc, ended, ppc, sent>>
    /\ UNCHANGED <<histVars, untilVars, proc>>

NextIso ==
    \/ \E e \in Endpoints : IsoIter(e)
    \/ \E e \in Endpoints : IsoSendSingle(e)
    \/ \E e \in Endpoints : IsoOpenFc(e)
    \/ \E e \in Endpoints : IsoFirstFrame(e)
    \/ \E e \in Endpoints : IsoFlowControl(e)
    \/ \E e \in Endpoints : IsoConsecutive(e)
    \/ \E e \in Endpoints : IsoSendReturn(e)
    \/ \E e \in Endpoints : IsoFind(e)
    \/ \E e \in Endpoints : IsoOpenRx(e)
    \/ \E e \in Endpoints : IsoSendFc(e)
    \/ \E e \in Endpoints : IsoTake(e)
    \/ \E e \in Endpoints : IsoReceiveReturn(e)
    \/ \E e \in Endpoints : IsoRespond(e)
    \/ \E e \in Endpoints : IsoTimeout(e)
    \/ LoopNoise

SpecIso == InitIso /\ [][NextIso]_vars

(***************************************************************************)
(* J1939-21 transport protocol (j1939.rs): a thread in J1939::send and a   *)
(* thread in receive_tp(..).find(..), as in tests::send14_bam / send14_ds: *)
(* the receiver's stream is registered before the sender is spawned.       *)
(***************************************************************************)
MaxTpLen == 15
\* the longest J1939TP transfer: 255 frames of 7 bytes
MaxTpTransfer == 1785

\* the frame tests::send14_bam sends (0x18D3FF00) and the one tests::send14_ds sends
\* (0x18D3F903), and the address of the receiver
TpBamId == 416546560
TpDsId == 416545027
ReceiverAddress == 249

RECURSIVE LeBytes(_, _)
\* the n low bytes of x, least significant first
LeBytes(x, n) == IF n = 0 THEN <<>> ELSE <<x % 256>> \o LeBytes(x \div 256, n - 1)

\* count = (1 + size / 7) as u8
tp_count(size) == AsU8(1 + size \div 7)

\* the control frames' payloads (BAM, and the packed structs of RTS, CTS, EOM)
BamPayload(size, count, pg) ==
    <<32, AsU8(size), AsU8(Shr(size, 8)), count, 255>> \o LeBytes(pg, 3)
\* the RTS with its size field most significant byte first
J1939_21TpCmRts_be(size, count, pg) ==
    <<16, (size % 65536) \div 256, size % 256, count, 255>> \o LeBytes(pg, 3)
J1939_21TpCmRts(size, count, pg) ==
    <<16>> \o LeBytes(size % 65536, 2) \o <<count, 255>> \o LeBytes(pg, 3)
J1939_21TpCmCts(count, pg) ==
    <<17, count, 1>> \o LeBytes(65535, 2) \o LeBytes(pg, 3)
J1939_21TpCmEOM(size, count, pg) ==
    <<19>> \o LeBytes(size % 65536, 2) \o <<count, 255>> \o LeBytes(pg, 3)

\* a data frame: the sequence number, then up to seven bytes, unpadded
DataPayload(payload, sq) ==
    LET start == (sq - 1) * 7
        end == Min(start + 7, Len(payload))
    IN  <<sq>> \o SubSeq(payload, start + 1, end)

\* control: what it reads from an RTS or a BAM
ControlSize(p) == p.payload[2] + 256 * p.payload[3]
ControlCount(p) == p.payload[4]
ControlPgn(p) == p.payload[6] + 256 * p.payload[7] + 65536 * p.payload[8]

TPDescriptor(size, count, pg) == [size |-> size, count |-> count, pgn |-> pg, data |-> <<>>]

\* HashMap<u8, TPDescriptor>: insert and remove
insert(table, k, d) == [x \in DOMAIN table \cup {k} |-> IF x = k THEN d ELSE table[x]]
remove(table, k) == [x \in DOMAIN table \ {k} |-> table[x]]

\* the ids receive_tp tests a frame against
ds_control_p(addr) == BitOr(15466496, Shl(addr, 8))
ds_data_p(addr) == BitOr(15400960, Shl(addr, 8))
bam_control_p == 15531776
bam_data_p == 15466240
IdClass(id) == BitAnd(id, 16776960)

\* the payload of length n that is sent; of 13 bytes the one the tests send,
\* [0, 0, 0, 1] and "Something"
TpPayload(n) ==
    IF n = 13 THEN <<0, 0, 0, 1, 83, 111, 109, 101, 116, 104, 105, 110, 103>>
    ELSE [i \in 1..n |-> (i * 41 + n) % 256]
\* the transfers: the short ones, the longest one (255 frames of 7 bytes), and the
\* shortest one whose count byte is 255
TpCases ==
    ({TpBamId, TpDsId} \X (9..MaxTpLen))
        \cup {<<TpBamId, MaxTpTransfer>>, <<TpDsId, MaxTpTransfer>>, <<TpDsId, MaxTpTransfer - 7>>}

TpStreamIds == {<<"rx", "iter">>, <<"tx", "cts">>}

InitTp ==
    /\ InitBus
    /\ InitUntil
    /\ wire = <<>>
    /\ streams = [k \in TpStreamIds |-> IF k = <<"rx", "iter">> THEN OpenStream ELSE ClosedStream]
    /\ \E c \in TpCases :
          proc = [tx |-> [pc |-> "start", packet |-> SomePacket(c[1], TpPayload(c[2])),
                          sq |-> 0, hi |-> 0, err |-> ""],
                  rx |-> [pc |-> "find", bam |-> <<>>, ds |-> <<>>, tosend |-> NoneItem,
                          yield |-> <<>>, found |-> NoneItem]]

TxPacket == proc.tx.packet
TxSize == Len(TxPacket.payload)

\* what a send publishes, on the streams and on the wire
TpPublish(f) ==
    /\ streams' = LoopSend(streams, f)
    /\ wire' = Append(wire, SimEcho(f))

\* send_tp_bam: the announce frame
TpSendBam ==
    /\ proc.tx.pc = "start"
    /\ dest(TxPacket.id) = 255
    /\ TpPublish(SomePacket(BitOr(418184960, source(TxPacket.id)),
                            BamPayload(TxSize, tp_count(TxSize), pgn(TxPacket.id))))
    /\ proc' = [proc EXCEPT !.tx.pc = "bam_data", !.tx.sq = 1, !.tx.hi = tp_count(TxSize) + 1]
    /\ IsoFrameUnchanged

\* send_tp_bam: for seq in 1..=count, one data frame
TpBamData ==
    /\ proc.tx.pc = "bam_data"
    /\ proc.tx.sq < proc.tx.hi
    /\ TpPublish(SomePacket(BitOr(418119424, source(TxPacket.id)),
                            DataPayload(TxPacket.payload, proc.tx.sq)))
    /\ proc' = [proc EXCEPT !.tx.sq = @ + 1]
    /\ IsoFrameUnchanged

\* send_tp_ds: cts_iter = iter_for(T3), before the RTS is sent
TpOpenCts ==
    /\ proc.tx.pc = "start"
    /\ dest(TxPacket.id) # 255
    /\ streams' = [streams EXCEPT ![<<"tx", "cts">>] = OpenStream]
    /\ proc' = [proc EXCEPT !.tx.pc = "rts"]
    /\ UNCHANGED wire
    /\ IsoFrameUnchanged

\* send_tp_ds: the RTS
TpRts ==
    /\ proc.tx.pc = "rts"
    /\ TpPublish(SomePacket(BitOr(BitOr(418119680, Shl(dest(TxPacket.id), 8)), source(TxPacket.id)),
                            J1939_21TpCmRts(TxSize, tp_count(TxSize), pgn(TxPacket.id))))
    /\ proc' = [proc EXCEPT !.tx.pc = "cts"]
    /\ IsoFrameUnchanged

\* send_tp_ds: cts_iter.find(id matches), one frame of the stream.  0x13 ends the
\* transfer, 0xFF is todo!(); anything else is a CTS: the frames next..next+to_send,
\* a u8 sum, which panics on overflow in a debug build and wraps in a release build.
TpCts ==
    /\ proc.tx.pc = "cts"
    /\ streams[<<"tx", "cts">>].q # <<>>
    /\ LET p == Head(streams[<<"tx", "cts">>].q)
           rx_id == BitOr(BitOr(15466496, Shl(source(TxPacket.id), 8)), dest(TxPacket.id))
           to_send == p.payload[2]
           next == p.payload[3]
       IN  /\ streams' = [streams EXCEPT ![<<"tx", "cts">>].q = Tail(@)]
           /\ IF Low24(p.id) # rx_id
              THEN UNCHANGED proc
              ELSE IF p.payload[1] = 19
              THEN proc' = [proc EXCEPT !.tx.pc = "done"]
              ELSE IF p.payload[1] = 255
              THEN proc' = [proc EXCEPT !.tx.pc = "failed", !.tx.err = "todo"]
              ELSE IF next + to_send > 255
              THEN \/ proc' = [proc EXCEPT !.tx.pc = "failed", !.tx.err = "overflow"]
                   \/ proc' = [proc EXCEPT !.tx.pc = "ds_data", !.tx.sq = next,
                                           !.tx.hi = AsU8(next + to_send)]
              ELSE proc' = [proc EXCEPT !.tx.pc = "ds_data", !.tx.sq = next,
                                        !.tx.hi = next + to_send]
    /\ UNCHANGED wire
    /\ IsoFrameUnchanged

\* send_tp_ds: for seq in next..(next + to_send), one data frame
TpDsData ==
    /\ proc.tx.pc = "ds_data"
    /\ proc.tx.sq < proc.tx.hi
    /\ IF proc.tx.sq = 0 \/ (proc.tx.sq - 1) * 7 > TxSize
       THEN /\ proc' = [proc EXCEPT !.tx.pc = "failed", !.tx.err = "slice"]
            /\ UNCHANGED <<wire, streams>>
       ELSE /\ TpPublish(SomePacket(BitOr(BitOr(418054144, Shl(dest(TxPacket.id), 8)),
                                          source(TxPacket.id)),
                                    DataPayload(TxPacket.payload, proc.tx.sq)))
            /\ proc' = [proc EXCEPT !.tx.sq = @ + 1]
    /\ IsoFrameUnchanged

\* send_tp_ds: after the data frames, cts_iter = iter_for(T3): a new stream
TpReopenCts ==
    /\ proc.tx.pc = "ds_data"
    /\ proc.tx.sq >= proc.tx.hi
    /\ streams' = [streams EXCEPT ![<<"tx", "cts">>] = OpenStream]
    /\ proc' = [proc EXCEPT !.tx.pc = "cts"]
    /\ UNCHANGED wire
    /\ IsoFrameUnchanged

\* send_tp_bam returns Ok(()) after the last data frame
TpBamReturn ==
    /\ proc.tx.pc = "bam_data"
    /\ proc.tx.sq >= proc.tx.hi
    /\ proc' = [proc EXCEPT !.tx.pc = "done"]
    /\ UNCHANGED <<wire, streams>>
    /\ IsoFrameUnchanged

\* control with the entry API: an announce does not replace a session in progress
control_keep(table, passive, p) ==
    IF p.payload[1] = 32 \/ p.payload[1] = 16
    THEN [table |-> IF source(p.id) \in DOMAIN table THEN table
                    ELSE insert(table, source(p.id),
                                TPDescriptor(ControlSize(p), ControlCount(p), ControlPgn(p))),
          tosend |-> IF passive THEN NoneItem
                     ELSE SomePacket(new_packet_id(6, 60416, source(p.id), dest(p.id)),
                                     J1939_21TpCmCts(ControlCount(p), ControlPgn(p))),
          r |-> <<>>]
    ELSE IF p.payload[1] = 255
    THEN [table |-> remove(table, source(p.id)), tosend |-> NoneItem, r |-> <<>>]
    ELSE [table |-> table, tosend |-> NoneItem, r |-> <<>>]

\* J1939::control on frame p: [table, tosend]
control(table, passive, p) ==
    IF p.payload[1] = 32 \/ p.payload[1] = 16
    THEN [table |-> insert(table, source(p.id),
                           TPDescriptor(ControlSize(p), ControlCount(p), ControlPgn(p))),
          tosend |-> IF passive THEN NoneItem
                     ELSE SomePacket(new_packet_id(6, 60416, source(p.id), dest(p.id)),
                                     J1939_21TpCmCts(ControlCount(p), ControlPgn(p))),
          r |-> <<>>]
    ELSE IF p.payload[1] = 255
    THEN [table |-> remove(table, source(p.id)), tosend |-> NoneItem, r |-> <<>>]
    ELSE [table |-> table, tosend |-> NoneItem, r |-> <<>>]

\* data without the table.remove of a completed session
data_frame_kept(table, passive, p) ==
    IF source(p.id) \notin DOMAIN table
    THEN [table |-> table, tosend |-> NoneItem, r |-> <<>>]
    ELSE LET d == table[source(p.id)]
             buf == IF p.payload[1] = AsU8(1 + Len(d.data) \div 7)
                    THEN d.data \o SubSeq(p.payload, 2, Len(p.payload))
                    ELSE d.data
         IN  IF Len(buf) >= d.size
             THEN LET packet == SomePacket(new_packet_id(priority(p.id), d.pgn,
                                                         dest(p.id), source(p.id)),
                                           truncate(buf, d.size))
                      eom == SomePacket(new_packet_id(6, 60416, source(p.id), dest(p.id)),
                                        J1939_21TpCmEOM(d.size, d.count, d.pgn))
                  IN  [table |-> insert(table, source(p.id), [d EXCEPT !.data = truncate(buf, d.size)]),
                       tosend |-> IF passive THEN NoneItem ELSE eom,
                       r |-> IF passive THEN <<packet>> ELSE <<eom, packet>>]
             ELSE [table |-> insert(table, source(p.id), [d EXCEPT !.data = buf]),
                   tosend |-> NoneItem, r |-> <<>>]

\* J1939::data on frame p: [table, tosend, r]
data_frame(table, passive, p) ==
    IF source(p.id) \notin DOMAIN table
    THEN [table |-> table, tosend |-> NoneItem, r |-> <<>>]
    ELSE LET d == table[source(p.id)]
             buf == IF p.payload[1] = AsU8(1 + Len(d.data) \div 7)
                    THEN d.data \o SubSeq(p.payload, 2, Len(p.payload))
                    ELSE d.data
         IN  IF Len(buf) >= d.size
             THEN LET packet == SomePacket(new_packet_id(priority(p.id), d.pgn,
                                                         dest(p.id), source(p.id)),
                                           truncate(buf, d.size))
                      eom == SomePacket(new_packet_id(6, 60416, source(p.id), dest(p.id)),
                                        J1939_21TpCmEOM(d.size, d.count, d.pgn))
                  IN  [table |-> remove(table, source(p.id)),
                       tosend |-> IF passive THEN NoneItem ELSE eom,
                       r |-> IF passive THEN <<packet>> ELSE <<eom, packet>>]
             ELSE [table |-> insert(table, source(p.id), [d EXCEPT !.data = buf]),
                   tosend |-> NoneItem, r |-> <<>>]

\* the test's find over what receive_tp yields: the first frame with the sent id
TpFind(yield) ==
    LET hits == { i \in 1..Len(yield) : Low24(yield[i].id) = Low24(TxPacket.id) }
    IN  IF hits = {} THEN NoneItem
        ELSE yield[CHOOSE i \in hits : \A j \in hits : i <= j]

\* the receiver after a frame is handled and its answer, if any, is sent
RxAfter(rx, yield) ==
    IF TpFind(yield).some
    THEN [rx EXCEPT !.pc = "done", !.found = TpFind(yield), !.tosend = NoneItem, !.yield = <<>>]
    ELSE [rx EXCEPT !.pc = "find", !.tosend = NoneItem, !.yield = <<>>]

\* receive_tp's flat_map closure on the next frame of the stream
TpRxFrame ==
    /\ proc.rx.pc = "find"
    /\ streams[<<"rx", "iter">>].q # <<>>
    /\ LET p == Head(streams[<<"rx", "iter">>].q)
           c == IdClass(p.id)
           bamc == IF c = bam_control_p THEN control(proc.rx.bam, TRUE, p)
                   ELSE IF c # ds_control_p(ReceiverAddress) /\ c = bam_data_p
                   THEN data_frame(proc.rx.bam, TRUE, p)
                   ELSE [table |-> proc.rx.bam, tosend |-> NoneItem, r |-> <<>>]
           dsc == IF c = bam_control_p THEN [table |-> proc.rx.ds, tosend |-> NoneItem, r |-> <<>>]
                  ELSE IF c = ds_control_p(ReceiverAddress) THEN control(proc.rx.ds, FALSE, p)
                  ELSE IF c # bam_data_p /\ c = ds_data_p(ReceiverAddress)
                  THEN data_frame(proc.rx.ds, FALSE, p)
                  ELSE [table |-> proc.rx.ds, tosend |-> NoneItem, r |-> <<>>]
           yield == <<p>> \o bamc.r \o dsc.r
           tosend == IF bamc.tosend.some THEN bamc.tosend ELSE dsc.tosend
           rx == [proc.rx EXCEPT !.bam = bamc.table, !.ds = dsc.table]
       IN  /\ streams' = [streams EXCEPT ![<<"rx", "iter">>].q = Tail(@)]
           /\ proc' = [proc EXCEPT !.rx =
                         IF tosend.some
                         THEN [rx EXCEPT !.pc = "send", !.tosend = tosend, !.yield = yield]
                         ELSE RxAfter(rx, yield)]
    /\ UNCHANGED wire
    /\ IsoFrameUnchanged

\* control / data: connection.send of the CTS or of the end-of-message
TpRxSend ==
    /\ proc.rx.pc = "send"
    /\ TpPublish(proc.rx.tosend)
    /\ proc' = [proc EXCEPT !.rx = RxAfter(proc.rx, proc.rx.yield)]
    /\ IsoFrameUnchanged

TxQuiet ==
    \/ proc.tx.pc \in {"done", "failed"}
    \/ proc.tx.pc = "cts" /\ streams[<<"tx", "cts">>].q = <<>>
RxQuiet ==
    \/ proc.rx.pc = "done"
    \/ proc.rx.pc = "find" /\ streams[<<"rx", "iter">>].q = <<>>

\* T3 passes with no frame for the sender: "CTS not received."
TpTimeoutTx ==
    /\ proc.tx.pc = "cts"
    /\ streams[<<"tx", "cts">>].q = <<>>
    /\ RxQuiet
    /\ proc' = [proc EXCEPT !.tx.pc = "failed", !.tx.err = "CTS not received."]
    /\ UNCHANGED <<wire, streams>>
    /\ IsoFrameUnchanged

\* the receiver's stream ends at its deadline: find returns None
TpTimeoutRx ==
    /\ proc.rx.pc = "find"
    /\ streams[<<"rx", "iter">>].q = <<>>
    /\ TxQuiet
    /\ proc' = [proc EXCEPT !.rx.pc = "done"]
    /\ UNCHANGED <<wire, streams>>
    /\ IsoFrameUnchanged

NextTp ==
    \/ TpSendBam
    \/ TpBamData
    \/ TpBamReturn
    \/ TpOpenCts
    \/ TpRts
    \/ TpCts
    \/ TpDsData
    \/ TpReopenCts
    \/ TpRxFrame
    \/ TpRxSend
    \/ TpTimeoutTx
    \/ TpTimeoutRx
    \/ LoopNoise

SpecTp == InitTp /\ [][NextTp]_vars

(***************************************************************************)
(* The simulated connection's reader thread and the drop of a connection    *)
(* (sim.rs).  proc holds the running flag, the reader's position and        *)
(* counter, the handles that exist, and the number of items on the bus when *)
(* the first drop returned.                                                 *)
(***************************************************************************)
MaxSimPush == 3
MaxSimSend == 1
SimHandles == {"connection", "clone"}

InitSim ==
    /\ InitBus
    /\ InitUntil
    /\ wire = <<>>
    /\ streams = [k \in {"log"} |-> ClosedStream]
    /\ proc = [running |-> FALSE, pc |-> "spawned", seq |-> 0,
               handles |-> {"connection"}, dropped |-> FALSE, atDrop |-> 0,
               started |-> FALSE, sends |-> 0]

\* run: running.store(true), the reader's first statement
SimStart ==
    /\ proc.pc = "spawned"
    /\ proc' = [proc EXCEPT !.running = TRUE, !.pc = "test"]
    /\ UNCHANGED <<wire, streams>>
    /\ IsoFrameUnchanged

\* run: while running.load()
SimTest ==
    /\ proc.pc = "test"
    /\ proc.seq < MaxSimPush
    /\ proc' = [proc EXCEPT !.pc = IF proc.running THEN "push" ELSE "exited"]
    /\ UNCHANGED <<wire, streams>>
    /\ IsoFrameUnchanged

\* run: bus.push(Some(packet))
SimPush ==
    /\ proc.pc = "push"
    /\ wire' = Append(wire, SimFrame(proc.seq))
    /\ streams' = Published(streams, SimFrame(proc.seq))
    /\ proc' = [proc EXCEPT !.pc = "sleep"]
    /\ IsoFrameUnchanged

\* run: sleep(100 ms); seq += 1
SimSleep ==
    /\ proc.pc = "sleep"
    /\ proc' = [proc EXCEPT !.pc = "test", !.seq = @ + 1]
    /\ UNCHANGED <<wire, streams>>
    /\ IsoFrameUnchanged

\* #[derive(Clone)]: the clone shares the running flag and the bus
SimClone ==
    /\ ~proc.dropped
    /\ "connection" \in proc.handles
    /\ "clone" \notin proc.handles
    /\ proc' = [proc EXCEPT !.handles = @ \cup {"clone"}]
    /\ UNCHANGED <<wire, streams>>
    /\ IsoFrameUnchanged

\* Drop for SimulatedConnection: running.store(false), and it returns
SimDrop(h) ==
    /\ h \in proc.handles
    /\ proc' = [proc EXCEPT !.running = FALSE,
                            !.handles = @ \ {h},
                            !.dropped = TRUE,
                            !.started = IF proc.dropped THEN @ ELSE proc.pc # "spawned",
                            !.atDrop = IF proc.dropped THEN @ ELSE Len(wire)]
    /\ UNCHANGED <<wire, streams>>
    /\ IsoFrameUnchanged

\* SimulatedConnection::send through a handle: the echo is pushed on the shared bus
\* (wire keeps the frames of the reader only)
SimSend(h) ==
    /\ h \in proc.handles
    /\ proc.sends < MaxSimSend
    /\ streams' = LoopSend(streams, SomePacket(416940281, <<3, 1, 2, 3, 255, 255, 255, 255>>))
    /\ proc' = [proc EXCEPT !.sends = @ + 1]
    /\ UNCHANGED wire
    /\ IsoFrameUnchanged

\* Connection::iter on a handle: a consumer of the bus
SimIter ==
    /\ proc.handles # {}
    /\ ~streams["log"].open
    /\ streams' = [streams EXCEPT !["log"] = OpenStream]
    /\ UNCHANGED <<wire, proc>>
    /\ IsoFrameUnchanged

\* the consumer takes the next item
SimConsume ==
    /\ streams["log"].q # <<>>
    /\ streams' = [streams EXCEPT !["log"].q = Tail(@)]
    /\ UNCHANGED <<wire, proc>>
    /\ IsoFrameUnchanged

NextSim ==
    \/ SimStart
    \/ SimTest
    \/ SimPush
    \/ SimSleep
    \/ SimClone
    \/ \E h \in SimHandles : SimDrop(h)
    \/ \E h \in SimHandles : SimSend(h)
    \/ SimIter
    \/ SimConsume

SpecSim == InitSim /\ [][NextSim]_vars

(***************************************************************************)
(* Rp1210::send and the adapter's reader thread (rp1210.rs).  The adapter   *)
(* is the environment: a write succeeds or fails, and a read returns the    *)
(* echo of the frame, another frame, or nothing.  Time is in ticks.         *)
(***************************************************************************)
MaxEchoNow == 3
MaxEchoRead == 2
\* the echo window, in ticks
EchoWindow == 2

\* the frame that is sent, and another frame on the bus
EchoPacket == SomePacket(send_header("X"), SingleFrame(<<1, 2, 3>>))
OtherPacket == SimFrame(0)

InitEcho ==
    /\ InitBus
    /\ InitUntil
    /\ wire = <<>>
    /\ streams = [k \in {"echo"} |-> ClosedStream]
    /\ proc = [pc |-> "iter", outcome |-> "none", clock |-> 0, start |-> 0, reads |-> 0]

\* send: stream = self.bus.iter()
EchoIter ==
    /\ proc.pc = "iter"
    /\ streams' = [streams EXCEPT !["echo"] = OpenStream]
    /\ proc' = [proc EXCEPT !.pc = "api"]
    /\ UNCHANGED wire
    /\ IsoFrameUnchanged

\* send: sent = self.api.send(packet); start = Instant::now(); an Err skips the map
EchoApiSend ==
    /\ proc.pc = "api"
    /\ \E written \in BOOLEAN :
          IF written
          THEN /\ wire' = Append(wire, EchoPacket)
               /\ proc' = [proc EXCEPT !.pc = "find", !.start = proc.clock]
          ELSE /\ wire' = wire
               /\ proc' = [proc EXCEPT !.pc = "returned", !.outcome = "Err"]
    /\ UNCHANGED streams
    /\ IsoFrameUnchanged

\* the reader thread: one read of the adapter, a frame or nothing, then bus.push(None)
EchoRead ==
    /\ proc.reads < MaxEchoRead
    /\ \E item \in {EchoPacket, OtherPacket, NoneItem} :
          streams' = IF item.some
                     THEN Published(Published(streams, item), NoneItem)
                     ELSE Published(streams, NoneItem)
    /\ proc' = [proc EXCEPT !.reads = @ + 1]
    /\ UNCHANGED wire
    /\ IsoFrameUnchanged

\* take_while(now - start < DURATION) on the item the stream yields
echo_in_window(clock, start) == clock - start < EchoWindow

\* send: the next item of stream.take_while(..).flat_map(..).find(..); an empty FIFO
\* yields Some(None).  When take_while ends the stream, find is None and expect panics.
EchoPoll ==
    /\ proc.pc = "find"
    /\ LET q == streams["echo"].q
           item == IF q = <<>> THEN NoneItem ELSE Head(q)
       IN  /\ streams' = [streams EXCEPT !["echo"].q = IF q = <<>> THEN q ELSE Tail(q)]
           /\ IF ~echo_in_window(proc.clock, proc.start)
              THEN proc' = [proc EXCEPT !.pc = "returned", !.outcome = "panic"]
              ELSE IF item.some /\ item.id = EchoPacket.id /\ item.payload = EchoPacket.payload
              THEN proc' = [proc EXCEPT !.pc = "returned", !.outcome = "Ok"]
              ELSE UNCHANGED proc
    /\ UNCHANGED wire
    /\ IsoFrameUnchanged

\* time passes while send runs
EchoTick ==
    /\ proc.pc # "returned"
    /\ proc.clock < MaxEchoNow
    /\ proc' = [proc EXCEPT !.clock = @ + 1]
    /\ UNCHANGED <<wire, streams>>
    /\ IsoFrameUnchanged

NextEcho ==
    \/ EchoIter
    \/ EchoApiSend
    \/ EchoRead
    \/ EchoPoll
    \/ EchoTick

SpecEcho == InitEcho /\ [][NextEcho]_vars

(***************************************************************************)
(* transport_send waiting for the flow control, with the clock              *)
(* (iso15765.rs 69-127 on connection.rs 57-69).  The peer and the rest of   *)
(* the bus are the environment: a frame on the receive header with any      *)
(* first byte, another frame, or nothing.  Time is in ticks.                *)
(***************************************************************************)
MaxFcNow == 3
MaxFcFrames == 2
\* the 2 s of the flow control stream, in ticks
FcWindow == 1
\* the first bytes the peer answers with: flow control, negative response, others
FcReplies == {48, 127, 16, 0}

InitFc ==
    /\ InitBus
    /\ InitUntil
    /\ wire = <<>>
    /\ streams = [k \in {"fc"} |-> ClosedStream]
    /\ \E n \in {9, 14} :
          proc = [pc |-> "ts_open", request |-> IsoRequest(n), sequence |-> 0, err |-> "",
                  clock |-> 0, end |-> 0, frames |-> 0, late |-> FALSE, from |-> 0]

\* transport_send: flow_control_stream = iter_for(2 s), end = now + duration
FcOpen ==
    /\ proc.pc = "ts_open"
    /\ streams' = [streams EXCEPT !["fc"] = OpenStream]
    /\ proc' = [proc EXCEPT !.pc = "ts_ff", !.end = proc.clock + FcWindow, !.from = Len(wire)]
    /\ UNCHANGED wire
    /\ IsoFrameUnchanged

\* transport_send: connection.send(&first_frame)
FcFirstFrame ==
    /\ proc.pc = "ts_ff"
    /\ LET f == IsoFrame("X", FirstFrame(proc.request))
       IN  /\ streams' = LoopSend(streams, f)
           /\ wire' = Append(wire, SimEcho(f))
    /\ proc' = [proc EXCEPT !.pc = "ts_fc"]
    /\ IsoFrameUnchanged

\* a frame published by another node: from the peer, with first byte b, or the
\* simulator's counter frame
FcPeer ==
    /\ proc.frames < MaxFcFrames
    /\ \E f \in {IsoFrame("Y", Pad8(<<b, 0, 0>>)) : b \in FcReplies} \cup {SimFrame(0)} :
          /\ streams' = Published(streams, f)
          /\ wire' = Append(wire, f)
    /\ proc' = [proc EXCEPT !.frames = @ + 1]
    /\ IsoFrameUnchanged

\* iter_until: filter(is_some) drops an empty poll without looking at the clock;
\* map_while ends the stream at the first frame that comes after the deadline
iter_until_item(q, clock, end) ==
    IF q = <<>> THEN "polling"
    ELSE IF clock > end THEN "ended"
    ELSE "frame"

\* transport_send: flow_control_stream.find(..), one poll of the stream, and the match
FcFind ==
    /\ proc.pc = "ts_fc"
    /\ LET q == streams["fc"].q
           item == iter_until_item(q, proc.clock, proc.end)
       IN  /\ streams' = [streams EXCEPT !["fc"].q = IF q = <<>> THEN q ELSE Tail(q)]
           /\ IF item = "polling"
              THEN proc' = [proc EXCEPT !.late = @ \/ proc.clock > proc.end]
              ELSE IF item = "ended"
              THEN proc' = [proc EXCEPT !.pc = "failed", !.err = "No response to"]
              ELSE IF Low24(Head(q).id) # receive_header("X")
              THEN UNCHANGED proc
              ELSE IF Head(q).payload[1] = 127
              THEN proc' = [proc EXCEPT !.pc = "failed", !.err = "NACK"]
              ELSE IF Head(q).payload[1] # 48
              THEN proc' = [proc EXCEPT !.pc = "failed", !.err = "Unexpected"]
              ELSE proc' = [proc EXCEPT !.pc = "ts_cf", !.sequence = 1]
    /\ UNCHANGED wire
    /\ IsoFrameUnchanged

\* transport_send: for sequence in 1..frames, connection.send(&consecutive)
FcConsecutive ==
    /\ proc.pc = "ts_cf"
    /\ proc.sequence < transport_frames(Len(proc.request))
    /\ LET f == IsoFrame("X", ConsecutiveFrame(proc.request, proc.sequence))
       IN  /\ streams' = LoopSend(streams, f)
           /\ wire' = Append(wire, SimEcho(f))
    /\ proc' = [proc EXCEPT !.sequence = @ + 1]
    /\ IsoFrameUnchanged

\* transport_send returns Ok(())
FcReturn ==
    /\ proc.pc = "ts_cf"
    /\ proc.sequence >= transport_frames(Len(proc.request))
    /\ proc' = [proc EXCEPT !.pc = "sent"]
    /\ UNCHANGED <<wire, streams>>
    /\ IsoFrameUnchanged

\* time passes while transport_send runs
FcTick ==
    /\ proc.pc \notin {"failed", "sent"}
    /\ proc.clock < MaxFcNow
    /\ proc' = [proc EXCEPT !.clock = @ + 1]
    /\ UNCHANGED <<wire, streams>>
    /\ IsoFrameUnchanged

NextFc ==
    \/ FcOpen
    \/ FcFirstFrame
    \/ FcPeer
    \/ FcFind
    \/ FcConsecutive
    \/ FcReturn
    \/ FcTick

SpecFc == InitFc /\ [][NextFc]_vars

(***************************************************************************)
(* Iso15765::receive with the clock (iso15765.rs 47-61 and 129-155 on       *)
(* connection.rs 57-69).  The receiver is the endpoint at address 0; the    *)
(* sender is the environment: it transmits the frames of a message in       *)
(* order and may stop after any of them.  Time is in ticks.                 *)
(***************************************************************************)
MaxRxNow == 3
MaxRxNoise == 1
\* the session duration, in ticks
RxWindow == 1
\* the lengths of the message the sender starts
RxLens == {3, 14, 21}

\* the frames of the message, as transport_send and send transmit them
RxScript(request) ==
    IF Len(request) <= 8
    THEN <<IsoFrame("X", SingleFrame(request))>>
    ELSE <<IsoFrame("X", FirstFrame(request))>> \o
         [k \in 1..(transport_frames(Len(request)) - 1) |->
            IsoFrame("X", ConsecutiveFrame(request, k))]

InitRx ==
    /\ InitBus
    /\ InitUntil
    /\ wire = <<>>
    /\ streams = [k \in {"iter", "rx"} |-> IF k = "iter" THEN OpenStream ELSE ClosedStream]
    /\ \E n \in RxLens :
          proc = [pc |-> "find", request |-> IsoRequest(n), script |-> RxScript(IsoRequest(n)),
                  noise |-> 0, clock |-> 0, end |-> RxWindow, rxend |-> 0,
                  found |-> NoneItem, result |-> <<>>, taken |-> 0,
                  outcome |-> "none", out |-> <<>>]

\* the sender transmits the next frame of the message, the consecutive frames once
\* the flow control is on the bus
RxPeerFrame ==
    /\ proc.script # <<>>
    /\ Len(proc.script) < Len(RxScript(proc.request)) => wire # <<>>
    /\ streams' = Published(streams, SimEcho(Head(proc.script)))
    /\ proc' = [proc EXCEPT !.script = Tail(@)]
    /\ UNCHANGED wire
    /\ IsoFrameUnchanged

\* another frame on the bus: the simulator's counter frame
RxNoise ==
    /\ proc.noise < MaxRxNoise
    /\ streams' = Published(streams, SimFrame(proc.noise))
    /\ proc' = [proc EXCEPT !.noise = @ + 1]
    /\ UNCHANGED wire
    /\ IsoFrameUnchanged

\* receive: iter.find(..), one poll of the stream; None is Err("No response")
RxFind ==
    /\ proc.pc = "find"
    /\ LET q == streams["iter"].q
           item == iter_until_item(q, proc.clock, proc.end)
       IN  /\ streams' = [streams EXCEPT !["iter"].q = IF q = <<>> THEN q ELSE Tail(q)]
           /\ IF item = "polling"
              THEN UNCHANGED proc
              ELSE IF item = "ended"
              THEN proc' = [proc EXCEPT !.pc = "returned", !.outcome = "No response"]
              ELSE IF ~receive_find("Y", Head(q))
              THEN UNCHANGED proc
              ELSE IF IsSingle(Head(q))
              THEN proc' = [proc EXCEPT !.pc = "returned", !.outcome = "Ok",
                                        !.found = Head(q), !.out = SingleData(Head(q))]
              ELSE proc' = [proc EXCEPT !.pc = "tr_iter", !.found = Head(q)]
    /\ UNCHANGED wire
    /\ IsoFrameUnchanged

\* transport_receive: stream = iter_for(duration)
RxOpen ==
    /\ proc.pc = "tr_iter"
    /\ streams' = [streams EXCEPT !["rx"] = OpenStream]
    /\ proc' = [proc EXCEPT !.pc = "tr_fc", !.rxend = proc.clock + RxWindow]
    /\ UNCHANGED wire
    /\ IsoFrameUnchanged

\* transport_receive: send the flow control, start the result with the first frame
RxSendFc ==
    /\ proc.pc = "tr_fc"
    /\ streams' = LoopSend(streams, IsoFrame("Y", FlowControl))
    /\ wire' = Append(wire, SimEcho(IsoFrame("Y", FlowControl)))
    /\ proc' = [proc EXCEPT !.pc = "tr_take", !.taken = 0,
                            !.result = SubSeq(proc.found.payload, 3, Len(proc.found.payload))]
    /\ IsoFrameUnchanged

\* transport_receive: stream.filter(..).take(frames).for_each(..), one poll of the
\* stream; when the stream ends, what has been collected is truncated and returned
RxTake ==
    /\ proc.pc = "tr_take"
    /\ proc.taken < receive_frames(FirstFrameLen(proc.found.payload))
    /\ LET q == streams["rx"].q
           item == iter_until_item(q, proc.clock, proc.rxend)
       IN  /\ streams' = [streams EXCEPT !["rx"].q = IF q = <<>> THEN q ELSE Tail(q)]
           /\ IF item = "polling"
              THEN UNCHANGED proc
              ELSE IF item = "ended"
              THEN proc' = [proc EXCEPT !.pc = "returned", !.outcome = "Ok",
                                        !.out = truncate(proc.result,
                                                         FirstFrameLen(proc.found.payload))]
              ELSE IF Low24(Head(q).id) = receive_header("Y")
              THEN proc' = [proc EXCEPT !.taken = @ + 1,
                                        !.result = @ \o SubSeq(Head(q).payload, 2,
                                                               Len(Head(q).payload))]
              ELSE UNCHANGED proc
    /\ UNCHANGED wire
    /\ IsoFrameUnchanged

\* transport_receive: all the frames taken; result.truncate(len), Ok(Some(result))
RxReturn ==
    /\ proc.pc = "tr_take"
    /\ proc.taken >= receive_frames(FirstFrameLen(proc.found.payload))
    /\ proc' = [proc EXCEPT !.pc = "returned", !.outcome = "Ok",
                            !.out = truncate(proc.result, FirstFrameLen(proc.found.payload))]
    /\ UNCHANGED <<wire, streams>>
    /\ IsoFrameUnchanged

\* time passes while receive runs
RxTick ==
    /\ proc.pc # "returned"
    /\ proc.clock < MaxRxNow
    /\ proc' = [proc EXCEPT !.clock = @ + 1]
    /\ UNCHANGED <<wire, streams>>
    /\ IsoFrameUnchanged

NextRx ==
    \/ RxPeerFrame
    \/ RxNoise
    \/ RxFind
    \/ RxOpen
    \/ RxSendFc
    \/ RxTake
    \/ RxReturn
    \/ RxTick

SpecRx == InitRx /\ [][NextRx]_vars

(***************************************************************************)
(* send_tp_ds with the clock (j1939.rs 136-205 on connection.rs 57-69).     *)
(* The receiver is the environment: it answers on the expected id with a    *)
(* CTS for a block of the message, with an end of message, with an abort,   *)
(* or not at all.  Time is in ticks.                                        *)
(***************************************************************************)
MaxCtsNow == 3
MaxCtsFrames == 2
\* T3, in ticks
T3Window == 1

\* the number of data frames of a message of size bytes
TpFrames(size) == (size + 6) \div 7
\* the blocks <<count, next>> a receiver may ask for: any run of frames of a short
\* message, and the whole of the longest message; and the blocks no receiver should
\* ask for: from frame 0, running past the last frame, starting after it
CtsBlocks(size) ==
    IF size > MaxTpLen THEN {<<TpFrames(size), 1>>}
    ELSE { <<c, nx>> \in (1..TpFrames(size)) \X (1..TpFrames(size)) : nx + c - 1 <= TpFrames(size) }
            \cup {<<1, 0>>, <<2, TpFrames(size)>>, <<1, TpFrames(size) + 2>>}
\* the TP.CM frames of the receiver at ReceiverAddress
CtsAnswer(payload) == SomePacket(new_packet_id(6, 60416, source(TpDsId), dest(TpDsId)), payload)
CtsAnswers(size) ==
    { CtsAnswer(<<17, b[1], b[2], 255, 255>> \o LeBytes(pgn(TpDsId), 3)) : b \in CtsBlocks(size) }
        \cup { CtsAnswer(J1939_21TpCmEOM(size, tp_count(size), pgn(TpDsId))),
               CtsAnswer(<<255, 1, 255, 255, 255>> \o LeBytes(pgn(TpDsId), 3)) }

InitCts ==
    /\ InitBus
    /\ InitUntil
    /\ wire = <<>>
    /\ streams = [k \in {<<"tx", "cts">>} |-> ClosedStream]
    /\ \E n \in {9, MaxTpLen, MaxTpTransfer} :
          proc = [tx |-> [pc |-> "start", packet |-> SomePacket(TpDsId, TpPayload(n)),
                          sq |-> 0, hi |-> 0, err |-> ""],
                  clock |-> 0, end |-> 0, frames |-> 0, late |-> FALSE, blocks |-> <<>>]

\* send_tp_ds: cts_iter = iter_for(T3), end = now + T3
CtsOpen ==
    /\ proc.tx.pc = "start"
    /\ streams' = [streams EXCEPT ![<<"tx", "cts">>] = OpenStream]
    /\ proc' = [proc EXCEPT !.tx.pc = "rts", !.end = proc.clock + T3Window]
    /\ UNCHANGED wire
    /\ IsoFrameUnchanged

\* send_tp_ds: the RTS
CtsRts ==
    /\ proc.tx.pc = "rts"
    /\ TpPublish(SomePacket(BitOr(BitOr(418119680, Shl(dest(TxPacket.id), 8)), source(TxPacket.id)),
                            J1939_21TpCmRts(TxSize, tp_count(TxSize), pgn(TxPacket.id))))
    /\ proc' = [proc EXCEPT !.tx.pc = "cts"]
    /\ IsoFrameUnchanged

\* a frame published by another node: a TP.CM of the receiver or the simulator's frame
CtsPeer ==
    /\ proc.frames < MaxCtsFrames
    /\ \E f \in CtsAnswers(TxSize) \cup {SimFrame(0)} :
          /\ streams' = Published(streams, f)
          /\ wire' = Append(wire, f)
    /\ proc' = [proc EXCEPT !.frames = @ + 1]
    /\ IsoFrameUnchanged

\* send_tp_ds: cts_iter.find(..).context("CTS not received.")?, one poll of the stream,
\* and what follows the frame found: 0x13 breaks the loop, 0xFF is todo!(), a CTS gives
\* the range next..(next + to_send), a u8 sum
CtsFind ==
    /\ proc.tx.pc = "cts"
    /\ LET q == streams[<<"tx", "cts">>].q
           item == iter_until_item(q, proc.clock, proc.end)
           rx_id == BitOr(BitOr(15466496, Shl(source(TxPacket.id), 8)), dest(TxPacket.id))
           to_send == Head(q).payload[2]
           next == Head(q).payload[3]
           block == [count |-> to_send, next |-> next, at |-> Len(wire)]
       IN  /\ streams' = [streams EXCEPT ![<<"tx", "cts">>].q = IF q = <<>> THEN q ELSE Tail(q)]
           /\ IF item = "polling"
              THEN proc' = [proc EXCEPT !.late = @ \/ proc.clock > proc.end]
              ELSE IF item = "ended"
              THEN proc' = [proc EXCEPT !.tx.pc = "failed", !.tx.err = "CTS not received."]
              ELSE IF Low24(Head(q).id) # rx_id
              THEN UNCHANGED proc
              ELSE IF Head(q).payload[1] = 19
              THEN proc' = [proc EXCEPT !.tx.pc = "done"]
              ELSE IF Head(q).payload[1] = 255
              THEN proc' = [proc EXCEPT !.tx.pc = "panic", !.tx.err = "todo"]
              ELSE IF next + to_send > 255
              THEN \/ proc' = [proc EXCEPT !.tx.pc = "panic", !.tx.err = "overflow",
                                           !.blocks = Append(@, block)]
                   \/ proc' = [proc EXCEPT !.tx.pc = "ds_data", !.tx.sq = next,
                                           !.tx.hi = AsU8(next + to_send),
                                           !.blocks = Append(@, block)]
              ELSE proc' = [proc EXCEPT !.tx.pc = "ds_data", !.tx.sq = next,
                                        !.tx.hi = next + to_send,
                                        !.blocks = Append(@, block)]
    /\ UNCHANGED wire
    /\ IsoFrameUnchanged

\* send_tp_ds: for seq in next..(next + to_send), one data frame
CtsData ==
    /\ proc.tx.pc = "ds_data"
    /\ proc.tx.sq < proc.tx.hi
    /\ IF proc.tx.sq = 0 \/ (proc.tx.sq - 1) * 7 > TxSize
       THEN /\ proc' = [proc EXCEPT !.tx.pc = "panic", !.tx.err = "slice"]
            /\ UNCHANGED <<wire, streams>>
       ELSE /\ TpPublish(SomePacket(BitOr(BitOr(418054144, Shl(dest(TxPacket.id), 8)),
                                          source(TxPacket.id)),
                                    DataPayload(TxPacket.payload, proc.tx.sq)))
            /\ proc' = [proc EXCEPT !.tx.sq = @ + 1]
    /\ IsoFrameUnchanged

\* send_tp_ds: after the block, cts_iter = iter_for(T3): a new stream, a new deadline
CtsReopen ==
    /\ proc.tx.pc = "ds_data"
    /\ proc.tx.sq >= proc.tx.hi
    /\ streams' = [streams EXCEPT ![<<"tx", "cts">>] = OpenStream]
    /\ proc' = [proc EXCEPT !.tx.pc = "cts", !.end = proc.clock + T3Window, !.late = FALSE]
    /\ UNCHANGED wire
    /\ IsoFrameUnchanged

\* time passes while send_tp_ds runs
CtsTick ==
    /\ proc.tx.pc \notin {"done", "failed", "panic"}
    /\ proc.clock < MaxCtsNow
    /\ proc' = [proc EXCEPT !.clock = @ + 1]
    /\ UNCHANGED <<wire, streams>>
    /\ IsoFrameUnchanged

NextCts ==
    \/ CtsOpen
    \/ CtsRts
    \/ CtsPeer
    \/ CtsFind
    \/ CtsData
    \/ CtsReopen
    \/ CtsTick

SpecCts == InitCts /\ [][NextCts]_vars

(***************************************************************************)
(* The J1939 header: J1939Packet::new_packet and the accessors              *)
(* (j1939_packet.rs and j1939/j1939_packet.rs, the same code twice).        *)
(***************************************************************************)
\* priorities 0..7; PGNs of both PDU formats, with and without a low byte, and with
\* the data page bits; addresses
HdrPriorities == 0..7
HdrPgns == {0, 54016, 54271, 61184, 61440, 65265, 65535, 65536, 119552, 262143}
HdrAddresses == {0, 18, 249, 255}

InitHdr ==
    /\ InitBus
    /\ InitUntil
    /\ wire = <<>>
    /\ streams = <<>>
    /\ \E pr \in HdrPriorities, pg \in HdrPgns, da \in HdrAddresses, sa \in HdrAddresses :
          proc = [pc |-> "new", priority |-> pr, pgn |-> pg, dest |-> da, source |-> sa,
                  read |-> <<>>]

\* J1939Packet::new_packet(.., priority, pgn, da, sa, ..)
HdrNew ==
    /\ proc.pc = "new"
    /\ wire' = <<SomePacket(new_packet_id(proc.priority, proc.pgn, proc.dest, proc.source), <<>>)>>
    /\ proc' = [proc EXCEPT !.pc = "read"]
    /\ UNCHANGED streams
    /\ IsoFrameUnchanged

\* priority(), pgn(), dest(), source() of the frame
HdrRead ==
    /\ proc.pc = "read"
    /\ proc' = [proc EXCEPT !.pc = "done",
                            !.read = [priority |-> priority(wire[1].id), pgn |-> pgn(wire[1].id),
                                      dest |-> dest(wire[1].id), source |-> source(wire[1].id)]]
    /\ UNCHANGED <<wire, streams>>
    /\ IsoFrameUnchanged

NextHdr ==
    \/ HdrNew
    \/ HdrRead

SpecHdr == InitHdr /\ [][NextHdr]_vars

(***************************************************************************)
(* receive_tp as a stream transformer (j1939.rs 207-243): the flat_map     *)
(* closure applied to one frame of an arbitrary input stream.  The input   *)
(* frames are well-formed CAN frames of two senders: TP.CM frames of eight *)
(* bytes (announce, abort, end-of-message), TP.DT frames of eight bytes    *)
(* with any sequence number, a TP.CM to another node, and a frame that is  *)
(* not a transport frame.  proc keeps the tables before the frame (was),   *)
(* the frame (last), what the closure yields for it (out) and what it      *)
(* sends on the connection meanwhile (sent).                               *)
(***************************************************************************)
RtpSources == {3, 5}
RtpTables == {"bam", "ds"}
\* the sizes a sender announces: sender 3 nothing or nine bytes, sender 5 fifteen
RtpSizes(s) == IF s = 3 THEN {0, 9} ELSE {15}
MaxRtpSeq == 3
RtpSeqs == 1..MaxRtpSeq
\* the PGN announced on a table: 0xFECA (PDU2) broadcast, 0xD300 (PDU1) to the receiver
RtpPgn(t) == IF t = "bam" THEN 65226 ELSE 54016
\* the bytes a sender transfers on a table: full data frames of them
RtpOwn(t, s) == [i \in 1..(7 * MaxRtpSeq) |-> (i * 41 + s * 7 + (IF t = "bam" THEN 100 ELSE 0)) % 256]

\* the ids of the transport frames of sender s: 18ECFFss / 18ECF9ss, 18EBFFss / 18EBF9ss
RtpControlId(t, s) ==
    IF t = "bam" THEN BitOr(418184960, s)
    ELSE BitOr(BitOr(418119680, Shl(ReceiverAddress, 8)), s)
RtpDataId(t, s) ==
    IF t = "bam" THEN BitOr(418119424, s)
    ELSE BitOr(BitOr(418054144, Shl(ReceiverAddress, 8)), s)

\* J1939_21TpConnAbort and an end-of-message acknowledgment
RtpAbort(t, s) == SomePacket(RtpControlId(t, s), <<255, 1, 255, 255, 255>> \o LeBytes(RtpPgn(t), 3))
RtpEom(t, s) == SomePacket(RtpControlId(t, s), J1939_21TpCmEOM(9, 2, RtpPgn(t)))
RtpOpen(t, s, n) ==
    SomePacket(RtpControlId(t, s),
               IF t = "bam" THEN BamPayload(n, (n + 6) \div 7, RtpPgn(t))
               ELSE J1939_21TpCmRts(n, (n + 6) \div 7, RtpPgn(t)))
RtpData(t, s, k) ==
    SomePacket(RtpDataId(t, s), <<k>> \o SubSeq(RtpOwn(t, s), 7 * (k - 1) + 1, 7 * k))

RtpControlFrames ==
    [t \in RtpTables |->
        UNION { { RtpOpen(t, s, n) : n \in RtpSizes(s) } : s \in RtpSources }
        \cup { RtpAbort(t, s) : s \in RtpSources }
        \cup { RtpEom(t, s) : s \in RtpSources }]
RtpDataFrames == [t \in RtpTables |-> { RtpData(t, s, k) : s \in RtpSources, k \in RtpSeqs }]
\* a heartbeat of the simulator, and a request to send addressed to node 0x21
RtpOtherFrames ==
    { SimFrame(1),
      SomePacket(BitOr(BitOr(418119680, Shl(33, 8)), 3), J1939_21TpCmRts(9, 2, RtpPgn("ds"))) }

\* receive_tp as a filter: a frame that is no transport frame is not yielded
receive_tp_filter(bam, ds, addr, passive, p) ==
    LET on_bam(x) == [bam |-> x.table, ds |-> ds, tosend |-> x.tosend, out |-> <<p>> \o x.r]
        on_ds(x) == [bam |-> bam, ds |-> x.table, tosend |-> x.tosend, out |-> <<p>> \o x.r]
        branch(c) ==
            IF c = bam_control_p THEN on_bam(control(bam, TRUE, p))
            ELSE IF c = ds_control_p(addr) THEN on_ds(control(ds, passive, p))
            ELSE IF c = bam_data_p THEN on_bam(data_frame(bam, TRUE, p))
            ELSE IF c = ds_data_p(addr) THEN on_ds(data_frame(ds, FALSE, p))
            ELSE [bam |-> bam, ds |-> ds, tosend |-> NoneItem, out |-> <<>>]
    IN  branch(IdClass(p.id))

\* receive_tp with one table for the data frames of both kinds
receive_tp_shared(bam, ds, addr, passive, p) ==
    LET on_bam(x) == [bam |-> x.table, ds |-> ds, tosend |-> x.tosend, out |-> <<p>> \o x.r]
        on_ds(x) == [bam |-> bam, ds |-> x.table, tosend |-> x.tosend, out |-> <<p>> \o x.r]
        branch(c) ==
            IF c = bam_control_p THEN on_bam(control(bam, TRUE, p))
            ELSE IF c = ds_control_p(addr) THEN on_ds(control(ds, passive, p))
            ELSE IF c = bam_data_p THEN on_bam(data_frame(bam, TRUE, p))
            ELSE IF c = ds_data_p(addr) THEN on_bam(data_frame(bam, FALSE, p))
            ELSE [bam |-> bam, ds |-> ds, tosend |-> NoneItem, out |-> <<p>>]
    IN  branch(IdClass(p.id))

\* receive_tp's flat_map closure on frame p: the tables after it, what it sends on
\* the connection, and the frames it yields (r.insert(0, p))
receive_tp(bam, ds, addr, passive, p) ==
    LET on_bam(x) == [bam |-> x.table, ds |-> ds, tosend |-> x.tosend, out |-> <<p>> \o x.r]
        on_ds(x) == [bam |-> bam, ds |-> x.table, tosend |-> x.tosend, out |-> <<p>> \o x.r]
        branch(c) ==
            IF c = bam_control_p THEN on_bam(control(bam, TRUE, p))
            ELSE IF c = ds_control_p(addr) THEN on_ds(control(ds, passive, p))
            ELSE IF c = bam_data_p THEN on_bam(data_frame(bam, TRUE, p))
            ELSE IF c = ds_data_p(addr) THEN on_ds(data_frame(ds, FALSE, p))
            ELSE [bam |-> bam, ds |-> ds, tosend |-> NoneItem, out |-> <<p>>]
    IN  branch(IdClass(p.id))

InitRtp ==
    /\ InitBus
    /\ InitUntil
    /\ wire = <<>>
    /\ streams = <<>>
    /\ \E passive \in BOOLEAN :
          proc = [passive |-> passive, bam |-> <<>>, ds |-> <<>>,
                  was |-> [bam |-> <<>>, ds |-> <<>>],
                  last |-> NoneItem, out |-> <<>>, sent |-> <<>>]

\* the closure is called with the next frame of the input
RtpStep(p) ==
    \E x \in {receive_tp(proc.bam, proc.ds, ReceiverAddress, proc.passive, p)} :
        /\ proc' = [proc EXCEPT !.bam = x.bam, !.ds = x.ds,
                                !.was = [bam |-> proc.bam, ds |-> proc.ds],
                                !.last = p, !.out = x.out,
                                !.sent = IF x.tosend.some THEN <<x.tosend>> ELSE <<>>]
        /\ UNCHANGED <<wire, streams>>
        /\ IsoFrameUnchanged

RtpBamControl == \E p \in RtpControlFrames["bam"] : RtpStep(p)
RtpDsControl == \E p \in RtpControlFrames["ds"] : RtpStep(p)
RtpBamData == \E p \in RtpDataFrames["bam"] : RtpStep(p)
RtpDsData == \E p \in RtpDataFrames["ds"] : RtpStep(p)
RtpPass == \E p \in RtpOtherFrames : RtpStep(p)

NextRtp ==
    \/ RtpBamControl
    \/ RtpDsControl
    \/ RtpBamData
    \/ RtpDsData
    \/ RtpPass

SpecRtp == InitRtp /\ [][NextRtp]_vars


(***************************************************************************)
(* receive_tp and time (j1939.rs 27-42, 271-280, 308-373): sender 5        *)
(* announces fifteen bytes on either table and its data frames arrive at   *)
(* the times of a clock.  The descriptor's timestamp is the time of the    *)
(* announce (stamp); seen is the time of the last data frame of a session, *)
(* gap the time between the frame handled last and the one before it.      *)
(***************************************************************************)
MaxT1Now == 3
\* J1939::T1 in ticks of the clock
T1Window == 1

InitT1 ==
    /\ InitBus
    /\ InitUntil
    /\ wire = <<>>
    /\ streams = <<>>
    /\ proc = [passive |-> FALSE, bam |-> <<>>, ds |-> <<>>,
               was |-> [bam |-> <<>>, ds |-> <<>>],
               last |-> NoneItem, out |-> <<>>, sent |-> <<>>,
               clock |-> 0, stamp |-> [t \in RtpTables |-> 0],
               seen |-> [t \in RtpTables |-> 0], gap |-> 0]

\* the closure on frame p of table t, which arrives now
T1Step(t, p, dt) ==
    \E x \in {receive_tp(proc.bam, proc.ds, ReceiverAddress, proc.passive, p)} :
        /\ proc' = [proc EXCEPT !.bam = x.bam, !.ds = x.ds,
                                !.was = [bam |-> proc.bam, ds |-> proc.ds],
                                !.last = p, !.out = x.out,
                                !.sent = IF x.tosend.some THEN <<x.tosend>> ELSE <<>>,
                                !.stamp[t] = IF dt THEN @ ELSE proc.clock,
                                !.seen[t] = proc.clock,
                                !.gap = IF dt THEN proc.clock - proc.seen[t] ELSE 0]
        /\ UNCHANGED <<wire, streams>>
        /\ IsoFrameUnchanged

\* control: the descriptor is inserted with timestamp p.time()
T1Announce == \E t \in RtpTables : T1Step(t, RtpOpen(t, 5, 15), FALSE)
\* data: the timestamp of the descriptor is not read
T1Data == \E t \in RtpTables, k \in RtpSeqs : T1Step(t, RtpData(t, 5, k), TRUE)

T1Tick ==
    /\ proc.clock < MaxT1Now
    /\ proc' = [proc EXCEPT !.clock = @ + 1]
    /\ UNCHANGED <<wire, streams>>
    /\ IsoFrameUnchanged

NextT1 ==
    \/ T1Announce
    \/ T1Data
    \/ T1Tick

SpecT1 == InitT1 /\ [][NextT1]_vars

(***************************************************************************)
(* Iso15765::receive over an arbitrary stream (iso15765.rs 47-61 and       *)
(* 129-155).  The receiver is the endpoint at address 0, reading a stream  *)
(* that does not end (connection.iter().flatten(), as SimVin::run does);   *)
(* the bus carries, in any order and with repeats, the frames of a short   *)
(* and of a segmented message of its peer, a flow control frame of the     *)
(* peer, the echo of a frame of its own and the simulator's frame.         *)
(***************************************************************************)
MaxScanFrames == 4
MaxScanNow == 1
\* the session duration, in ticks
ScanWindow == 0

ScanFrames ==
    { IsoFrame("X", SingleFrame(IsoRequest(3))),
      IsoFrame("X", FirstFrame(IsoRequest(14))),
      IsoFrame("X", ConsecutiveFrame(IsoRequest(14), 1)),
      IsoFrame("X", ConsecutiveFrame(IsoRequest(14), 2)),
      IsoFrame("X", FlowControl),
      SimEcho(IsoFrame("Y", SingleFrame(IsoRequest(2)))),
      SimFrame(0) }

InitScan ==
    /\ InitBus
    /\ InitUntil
    /\ wire = <<>>
    /\ streams = [k \in {"iter", "rx"} |-> IF k = "iter" THEN OpenStream ELSE ClosedStream]
    /\ proc = [pc |-> "find", heard |-> <<>>, clock |-> 0, rxend |-> 0, rxfrom |-> 0,
               found |-> NoneItem, result |-> <<>>, taken |-> 0, took |-> <<>>,
               outcome |-> "none", out |-> <<>>]

\* a frame is pushed on the bus
ScanFrame ==
    /\ Len(proc.heard) < MaxScanFrames
    /\ \E f \in ScanFrames :
          /\ streams' = Published(streams, f)
          /\ proc' = [proc EXCEPT !.heard = Append(@, f)]
    /\ UNCHANGED wire
    /\ IsoFrameUnchanged

\* receive: iter.find(..), one frame of the stream
ScanFind ==
    /\ proc.pc = "find"
    /\ streams["iter"].q # <<>>
    /\ LET p == Head(streams["iter"].q)
       IN  /\ streams' = [streams EXCEPT !["iter"].q = Tail(@)]
           /\ IF ~receive_find("Y", p)
              THEN UNCHANGED proc
              ELSE IF IsSingle(p)
              THEN proc' = [proc EXCEPT !.pc = "returned", !.outcome = "Ok",
                                        !.found = p, !.out = SingleData(p)]
              ELSE proc' = [proc EXCEPT !.pc = "tr_iter", !.found = p]
    /\ UNCHANGED wire
    /\ IsoFrameUnchanged

\* transport_receive: stream = iter_for(duration)
ScanOpen ==
    /\ proc.pc = "tr_iter"
    /\ streams' = [streams EXCEPT !["rx"] = OpenStream]
    /\ proc' = [proc EXCEPT !.pc = "tr_fc", !.rxend = proc.clock + ScanWindow,
                            !.rxfrom = Len(proc.heard)]
    /\ UNCHANGED wire
    /\ IsoFrameUnchanged

\* transport_receive: send the flow control, start the result with the first frame
ScanSendFc ==
    /\ proc.pc = "tr_fc"
    /\ streams' = LoopSend(streams, IsoFrame("Y", FlowControl))
    /\ wire' = Append(wire, SimEcho(IsoFrame("Y", FlowControl)))
    /\ proc' = [proc EXCEPT !.pc = "tr_take", !.taken = 0,
                            !.result = SubSeq(proc.found.payload, 3, Len(proc.found.payload))]
    /\ IsoFrameUnchanged

\* transport_receive: stream.filter(..).take(frames).for_each(..), one poll of the
\* stream; when the stream ends, what has been collected is truncated and returned
ScanTake ==
    /\ proc.pc = "tr_take"
    /\ proc.taken < receive_frames(FirstFrameLen(proc.found.payload))
    /\ LET q == streams["rx"].q
           item == iter_until_item(q, proc.clock, proc.rxend)
       IN  /\ streams' = [streams EXCEPT !["rx"].q = IF q = <<>> THEN q ELSE Tail(q)]
           /\ IF item = "polling"
              THEN UNCHANGED proc
              ELSE IF item = "ended"
              THEN proc' = [proc EXCEPT !.pc = "returned", !.outcome = "Ok",
                                        !.out = truncate(proc.result,
                                                         FirstFrameLen(proc.found.payload))]
              ELSE IF Low24(Head(q).id) = receive_header("Y")
              THEN proc' = [proc EXCEPT !.taken = @ + 1, !.took = Append(@, Head(q)),
                                        !.result = @ \o SubSeq(Head(q).payload, 2,
                                                               Len(Head(q).payload))]
              ELSE UNCHANGED proc
    /\ UNCHANGED wire
    /\ IsoFrameUnchanged

\* transport_receive: all the frames taken; result.truncate(len), Ok(Some(result))
ScanReturn ==
    /\ proc.pc = "tr_take"
    /\ proc.taken >= receive_frames(FirstFrameLen(proc.found.payload))
    /\ proc' = [proc EXCEPT !.pc = "returned", !.outcome = "Ok",
                            !.out = truncate(proc.result, FirstFrameLen(proc.found.payload))]
    /\ UNCHANGED <<wire, streams>>
    /\ IsoFrameUnchanged

\* time passes while transport_receive reads its stream
ScanTick ==
    /\ proc.pc = "tr_take"
    /\ proc.clock < MaxScanNow
    /\ proc' = [proc EXCEPT !.clock = @ + 1]
    /\ UNCHANGED <<wire, streams>>
    /\ IsoFrameUnchanged

NextScan ==
    \/ ScanFrame
    \/ ScanFind
    \/ ScanOpen
    \/ ScanSendFc
    \/ ScanTake
    \/ ScanReturn
    \/ ScanTick

SpecScan == InitScan /\ [][NextScan]_vars


(***************************************************************************)
(* transport_send's loop over the consecutive frames of a long request     *)
(* (iso15765.rs 69-127), as in tests::send4000: more than 15 consecutive   *)
(* frames, so that the sequence nibble wraps.  The peer answers the first  *)
(* frame with a flow control frame carrying one of three STmin values.     *)
(***************************************************************************)
MaxSeqLen == 120
\* requests of 16 consecutive frames and more
SeqLens == 112..MaxSeqLen
\* STmin of the flow control: none, 5 ms, 300 us
SeqStMins == {0, 5, 243}

\* transport_send: the delay between frames, in microseconds
interpacket_delay(stmin) ==
    IF stmin > 240 /\ stmin < 250 THEN 100 * BitAnd(15, stmin) ELSE 1000 * stmin

InitSeq ==
    /\ InitBus
    /\ InitUntil
    /\ wire = <<>>
    /\ streams = [k \in {"fc"} |-> ClosedStream]
    /\ \E n \in SeqLens :
          proc = [pc |-> "ts_open", request |-> IsoRequest(n), sequence |-> 0,
                  delay |-> 0, slept |-> 0]

\* transport_send: flow_control_stream = iter_for(2 s); connection.send(&first_frame)
SeqFirstFrame ==
    /\ proc.pc = "ts_open"
    /\ streams' = LoopSend([streams EXCEPT !["fc"] = OpenStream],
                           IsoFrame("X", FirstFrame(proc.request)))
    /\ wire' = Append(wire, SimEcho(IsoFrame("X", FirstFrame(proc.request))))
    /\ proc' = [proc EXCEPT !.pc = "ts_fc"]
    /\ IsoFrameUnchanged

\* the peer's flow control frame
SeqPeer ==
    /\ proc.pc = "ts_fc"
    /\ \A i \in 1..Len(streams["fc"].q) : Low24(streams["fc"].q[i].id) # receive_header("X")
    /\ \E stmin \in SeqStMins :
          streams' = Published(streams, SimEcho(IsoFrame("Y", <<48, 0, stmin, 255, 255, 255, 255, 255>>)))
    /\ UNCHANGED <<wire, proc>>
    /\ IsoFrameUnchanged

\* transport_send: flow_control_stream.find(..), one frame of the stream
SeqFind ==
    /\ proc.pc = "ts_fc"
    /\ streams["fc"].q # <<>>
    /\ LET p == Head(streams["fc"].q)
       IN  /\ streams' = [streams EXCEPT !["fc"].q = Tail(@)]
           /\ IF Low24(p.id) # receive_header("X")
              THEN UNCHANGED proc
              ELSE IF p.payload[1] = 127
              THEN proc' = [proc EXCEPT !.pc = "failed"]
              ELSE IF p.payload[1] # 48
              THEN proc' = [proc EXCEPT !.pc = "failed"]
              ELSE proc' = [proc EXCEPT !.pc = "ts_cf", !.sequence = 1,
                                        !.delay = interpacket_delay(p.payload[3])]
    /\ UNCHANGED wire
    /\ IsoFrameUnchanged

\* transport_send: for sequence in 1..frames: sleep, connection.send(&consecutive)
SeqConsecutive ==
    /\ proc.pc = "ts_cf"
    /\ proc.sequence < transport_frames(Len(proc.request))
    /\ streams' = LoopSend(streams, IsoFrame("X", ConsecutiveFrame(proc.request, proc.sequence)))
    /\ wire' = Append(wire, SimEcho(IsoFrame("X", ConsecutiveFrame(proc.request, proc.sequence))))
    /\ proc' = [proc EXCEPT !.sequence = @ + 1, !.slept = @ + proc.delay]
    /\ IsoFrameUnchanged

\* transport_send returns Ok(()); the flow control stream is dropped
SeqReturn ==
    /\ proc.pc = "ts_cf"
    /\ proc.sequence >= transport_frames(Len(proc.request))
    /\ streams' = [streams EXCEPT !["fc"] = ClosedStream]
    /\ proc' = [proc EXCEPT !.pc = "returned"]
    /\ UNCHANGED wire
    /\ IsoFrameUnchanged

NextSeq ==
    \/ SeqFirstFrame
    \/ SeqPeer
    \/ SeqFind
    \/ SeqConsecutive
    \/ SeqReturn

SpecSeq == InitSeq /\ [][NextSeq]_vars


(***************************************************************************)
(* Slcan (slcan.rs): the thread in Slcan::send and the reader/writer       *)
(* thread run_can, which alone owns the serial port.  wire is what has     *)
(* been written to the port, streams["fan"] a consumer of the fan-out bus. *)
(* Lines are sequences of characters: 84 is 'T', a hex digit is its value. *)
(***************************************************************************)
MaxSlcanSend == 2
MaxSlcanRead == 1

\* the n hex digits of v, most significant first
RECURSIVE HexDigits(_, _)
HexDigits(v, n) == IF n = 0 THEN <<>> ELSE HexDigits(v \div 16, n - 1) \o <<v % 16>>
RECURSIVE HexBytes(_)
HexBytes(bytes) == IF bytes = <<>> THEN <<>> ELSE HexDigits(Head(bytes), 2) \o HexBytes(Tail(bytes))
RECURSIVE HexValue(_)
HexValue(digits) ==
    IF digits = <<>> THEN 0 ELSE 16 * HexValue(SubSeq(digits, 1, Len(digits) - 1)) + digits[Len(digits)]

\* unparse: format!("T{:08X}{}{}", p.id(), payload.len() / 2, payload)
unparse(p) == <<84>> \o HexDigits(p.id, 8) \o <<Len(HexBytes(p.payload)) \div 2>> \o HexBytes(p.payload)

\* parse_result: None for a line shorter than 9 characters or of odd length
parse_result(line) ==
    IF Len(line) < 9 \/ Len(line) % 2 # 0 THEN NoneItem
    ELSE SomePacket(HexValue(SubSeq(line, 2, 9)),
                    [i \in 1..((Len(line) - 10) \div 2) |->
                        HexValue(SubSeq(line, 9 + 2 * i, 10 + 2 * i))])

\* the lines the adapter may deliver: a frame of the bus, and a cut line
SlcanLines == {unparse(SimFrame(0)), <<84, 1, 8>>}

InitSlcan ==
    /\ InitBus
    /\ InitUntil
    /\ wire = <<>>
    /\ streams = [k \in {"fan"} |-> OpenStream]
    /\ proc = [running |-> TRUE, outbound |-> <<>>, spc |-> "idle", packet |-> NoneItem,
               wpc |-> "test", sends |-> <<>>, reads |-> 0]

\* Slcan::send: unparse(packet), items.push_back(p) under the mutex of the FIFO
SlcanEnqueue ==
    /\ proc.spc = "idle"
    /\ Len(proc.sends) < MaxSlcanSend
    /\ \E p \in SendFrames :
          proc' = [proc EXCEPT !.outbound = Append(@, unparse(p)), !.spc = "echo",
                               !.packet = p, !.sends = Append(@, p)]
    /\ UNCHANGED <<wire, streams>>
    /\ IsoFrameUnchanged

\* Slcan::send, not(slcan_echo): self.bus.push(Some(packet.clone())); Ok(packet.clone())
SlcanEcho ==
    /\ proc.spc = "echo"
    /\ streams' = Published(streams, proc.packet)
    /\ proc' = [proc EXCEPT !.spc = "idle"]
    /\ UNCHANGED wire
    /\ IsoFrameUnchanged

\* run_can: while self.running.load()
SlcanTest ==
    /\ proc.wpc = "test"
    /\ proc' = [proc EXCEPT !.wpc = IF proc.running THEN "tx" ELSE "exited"]
    /\ UNCHANGED <<wire, streams>>
    /\ IsoFrameUnchanged

\* run_can, tx: items.pop_front() under the mutex; the line and its CR are written
\* to the port and flushed
SlcanWrite ==
    /\ proc.wpc = "tx"
    /\ IF proc.outbound = <<>>
       THEN /\ proc' = [proc EXCEPT !.wpc = "rx"]
            /\ UNCHANGED wire
       ELSE /\ proc' = [proc EXCEPT !.wpc = "rx", !.outbound = Tail(@)]
            /\ wire' = Append(wire, Head(proc.outbound))
    /\ UNCHANGED streams
    /\ IsoFrameUnchanged

\* run_can, rx: port.read times out, or delivers a line: bus.push(parse_result(..).ok())
SlcanRead ==
    /\ proc.wpc = "rx"
    /\ \/ /\ proc' = [proc EXCEPT !.wpc = "test"]
          /\ UNCHANGED streams
       \/ /\ proc.reads < MaxSlcanRead
          /\ \E line \in SlcanLines :
                streams' = IF parse_result(line).some
                           THEN Published(streams, parse_result(line)) ELSE streams
          /\ proc' = [proc EXCEPT !.wpc = "test", !.reads = @ + 1]
    /\ UNCHANGED wire
    /\ IsoFrameUnchanged

\* Drop for Slcan: running.store(false); self.bus.close(): the consumer is closed
\* and is pushed to no more (its FIFO is kept as the record of what it was given)
SlcanDrop ==
    /\ proc.running
    /\ proc.spc = "idle"
    /\ proc.sends # <<>>
    /\ proc' = [proc EXCEPT !.running = FALSE, !.spc = "dropped"]
    /\ streams' = [streams EXCEPT !["fan"].open = FALSE]
    /\ UNCHANGED wire
    /\ IsoFrameUnchanged

NextSlcan ==
    \/ SlcanEnqueue
    \/ SlcanEcho
    \/ SlcanTest
    \/ SlcanWrite
    \/ SlcanRead
    \/ SlcanDrop

SpecSlcan == InitSlcan /\ [][NextSlcan]_vars


(***************************************************************************)
(* The UDS command builder (uds/mod.rs 81-142, uds.rs 67-129): build, then *)
(* up to MaxUdsOps appends of one or two values.  A u64 is kept as its two *)
(* 32-bit halves.                                                          *)
(***************************************************************************)
MaxUdsOps == 2

\* the services of Uds::cmd
UdsServices == {16, 34, 39, 46, 47}
\* the slices a builder operation is given
UdsData(kind) ==
    IF kind = "u8" THEN {<<3>>, <<241, 144>>}
    ELSE IF kind = "u16" THEN {<<61840>>, <<258, 65535>>}
    ELSE IF kind = "u24" THEN {<<1193046>>, <<16777215, 1>>}
    ELSE IF kind = "u32" THEN {<<305419896>>, <<16909060, 2147483647>>}
    ELSE {<<[hi |-> 16909060, lo |-> 84281096]>>,
          <<[hi |-> 0, lo |-> 1]>>}
UdsKinds == {"u8", "u16", "u24", "u32", "u64"}

\* (d >> (i * 8)) as u8 of a u64
U64Byte(d, i) == IF i < 4 THEN AsU8(Shr(d.lo, i * 8)) ELSE AsU8(Shr(d.hi, (i - 4) * 8))

\* the bytes one value is pushed as
builder_bytes(kind, d) ==
    IF kind = "u8" THEN <<d>>
    ELSE IF kind = "u16" THEN <<AsU8(Shr(d, 8)), AsU8(d)>>
    ELSE IF kind = "u24" THEN <<AsU8(Shr(d, 16)), AsU8(Shr(d, 8)), AsU8(d)>>
    ELSE IF kind = "u32" THEN <<AsU8(Shr(d, 24)), AsU8(Shr(d, 16)), AsU8(Shr(d, 8)), AsU8(d)>>
    ELSE [k \in 1..7 |-> U64Byte(d, 7 - k)]

\* for d in data { self.raw.push(..) }
RECURSIVE builder_push(_, _, _)
builder_push(raw, kind, values) ==
    IF values = <<>> THEN raw
    ELSE builder_push(raw \o builder_bytes(kind, Head(values)), kind, Tail(values))

InitUds ==
    /\ InitBus
    /\ InitUntil
    /\ wire = <<>>
    /\ streams = <<>>
    /\ proc = [pc |-> "new", raw |-> <<>>, ops |-> <<>>]

\* Iso14229Command::build(duration, command)
UdsBuild ==
    /\ proc.pc = "new"
    /\ \E command \in UdsServices :
          proc' = [proc EXCEPT !.pc = "built", !.raw = builder_push(<<>>, "u8", <<command>>)]
    /\ UNCHANGED <<wire, streams>>
    /\ IsoFrameUnchanged

\* Iso14229Command::u8 / u16 / u24 / u32 / u64
UdsAppend(kind) ==
    /\ proc.pc = "built"
    /\ Len(proc.ops) < MaxUdsOps
    /\ \E values \in UdsData(kind) :
          proc' = [proc EXCEPT !.raw = builder_push(proc.raw, kind, values),
                               !.ops = Append(@, [kind |-> kind, values |-> values,
                                                  before |-> proc.raw])]
    /\ UNCHANGED <<wire, streams>>
    /\ IsoFrameUnchanged

NextUds ==
    \/ UdsBuild
    \/ \E kind \in UdsKinds : UdsAppend(kind)

SpecUds == InitUds /\ [][NextUds]_vars


(***************************************************************************)
(* Properties of the fan-out bus.                                          *)
(***************************************************************************)
Created(c) == cpc[c] # "none"
Live(c) == Created(c) /\ running[c]

Items(q) == LET IsSome(x) == x.some IN SelectSeq(q, IsSome)
DropN(q, k) == SubSeq(q, k + 1, Len(q))
IsPrefix(p, q) == Len(p) <= Len(q) /\ SubSeq(q, 1, Len(p)) = p

\* the items pushed since consumer c's iter() call
Since(c) == DropN(log, sub[c])

\* the item of a push that holds the registry mutex and has not reached c's slot yet
Pending(c) ==
    LET T == { t \in Publishers :
                 /\ ppc[t].pc = "push"
                 /\ \E i \in ppc[t].idx..Len(iters[ppc[t].reg]) :
                        iters[ppc[t].reg][i] = c }
    IN  IF T = {} THEN <<>> ELSE <<ppc[CHOOSE t \in T : TRUE].item>>

\* what next() has returned to c, then what its FIFO holds, then what a push in
\* progress is about to append
Stream(c) == obs[c] \o data[c] \o Pending(c)

\* C1: fanout fidelity.  For two live consumers A and B of the bus, A registered no
\* later than B, the non-heartbeat items B has observed are a prefix of, and the
\* non-heartbeat items delivered to B are exactly, the non-heartbeat items delivered
\* to A from B's subscription point on: both see the identical run of items.
C1_FanoutFidelity ==
    \A a, b \in Consumers :
        (Live(a) /\ Live(b) /\ a < b) =>
            /\ sub[a] <= sub[b]
            /\ Items(Stream(b)) = Items(DropN(Stream(a), sub[b] - sub[a]))
            /\ IsPrefix(Items(obs[b]), Items(DropN(Stream(a), sub[b] - sub[a])))

\* two live consumers, the second subscribed after a push, and both have observed
\* the frame pushed after that
C1_Witness ==
    /\ Live(1) /\ Live(2)
    /\ sub[1] < sub[2]
    /\ Items(obs[2]) # <<>>
    /\ Items(DropN(obs[1], sub[2] - sub[1])) = Items(obs[2])

\* C2: order and no loss.  What next() has returned to a consumer is a prefix of the
\* items pushed since its iter() call, in publish order; for a live consumer the
\* items returned and the items still queued for it are all of them, so an item is
\* missing from a consumer's stream only if its flag was cleared (close or drop).
C2_OrderNoLoss ==
    \A c \in Consumers :
        Created(c) =>
            /\ IsPrefix(obs[c] \o data[c], Since(c))
            /\ Stream(c) # Since(c) => ~running[c]

\* a live consumer has been returned two pushed items, in publish order
C2_Witness ==
    \E c \in Consumers :
        /\ Live(c)
        /\ Len(obs[c]) = 2
        /\ obs[c] = Since(c)
        /\ obs[c][1] # obs[c][2]

\* C5: a successful send returns an echo with the id and the payload of the frame
\* that was sent, and that echo reaches every consumer registered before the send.
C5_EchoSameFrame ==
    sent.called =>
        /\ sent.echo.id = sent.frame.id
        /\ sent.echo.payload = sent.frame.payload

\* the delivery half of C5, which the code keeps: the echo returned is the item
\* pushed, so it is in the stream of every consumer that was live at the send
C5_EchoDelivered ==
    sent.called =>
        /\ \E i \in 1..Len(log) : log[i] = sent.echo
        /\ \A c \in Consumers, i \in 1..Len(log) :
              (Live(c) /\ log[i] = sent.echo /\ sub[c] < i) =>
                  \E j \in 1..Len(Stream(c)) : Stream(c)[j] = sent.echo

\* C8: next() returns None exactly when the slot's flag is cleared: a call on a
\* running slot does not end the stream, and returns the front of the FIFO unchanged
\* when there is one; a call on a cleared slot ends it and yields nothing.  A flag
\* once cleared stays cleared; close() clears the flag of every consumer that exists.
C8_EndInv ==
    \A c \in Consumers : ended[c] => (Created(c) /\ ~running[c])

C8_EndStep ==
    \A c \in Consumers :
        /\ (cpc[c] = "idle" /\ running[c] /\ IterNext(c)) =>
              /\ ~ended'[c]
              /\ IF data[c] = <<>>
                 THEN obs'[c] = obs[c] /\ data'[c] = <<>>
                 ELSE obs'[c] = Append(obs[c], Head(data[c])) /\ data'[c] = Tail(data[c])
        /\ (cpc[c] = "idle" /\ ~running[c] /\ IterNext(c)) =>
              ended'[c] /\ obs'[c] = obs[c]
        /\ (Created(c) /\ ~running[c]) => ~running'[c]
        /\ ended[c] => ended'[c]
        /\ obs'[c] # obs[c] => running[c]
        /\ (Live(c) /\ cpc' = cpc /\ data' = data /\ \E h \in Handles : Close(h)) =>
              ~running'[c]

C8_NextEndsOnClearedFlag == []C8_EndInv /\ [][C8_EndStep]_vars

\* a consumer with an item still queued was closed, and its next call ended the stream
C8_Witness ==
    \E c \in Consumers :
        /\ ended[c]
        /\ cpc[c] = "idle"
        /\ data[c] # <<>>
        /\ obs[c] # <<>>

\* C9: the clones of a bus share one registry, in which every live consumer is
\* registered whichever handle created it; a consumer is never delivered an item
\* pushed before its iter() call, and once no push is in progress a live consumer
\* has been delivered every item pushed after it, through whichever handle.
C9_SharedRegistry ==
    /\ \A h \in Handles : busIters[h] = busIters["bus"]
    /\ \A c \in Consumers, h \in Handles :
          Live(c) => \E i \in 1..Len(iters[busIters[h]]) : iters[busIters[h]][i] = c
    /\ \A c \in Consumers :
          Created(c) =>
              /\ Len(obs[c]) + Len(data[c]) <= Len(log) - sub[c]
              /\ \A i \in 1..Len(obs[c]) : obs[c][i] = log[sub[c] + i]
              /\ (running[c] /\ \A t \in Publishers : ppc[t].pc = "idle") =>
                    Len(obs[c]) + Len(data[c]) = Len(log) - sub[c]

\* the consumer created on the first handle after one push has been returned the
\* item the reader pushed later through its clone, and nothing of the earlier push;
\* the consumer created on the clone after both pushes has nothing queued
C9_Witness ==
    /\ Live(1) /\ Live(2)
    /\ IterHandle(1) # ReaderHandle
    /\ IterHandle(2) = ReaderHandle
    /\ sub[1] = 1 /\ sub[2] = 2
    /\ Len(log) = 2
    /\ log[1] # log[2]
    /\ obs[1] = <<log[2]>>
    /\ obs[2] = <<>> /\ data[2] = <<>>

C6_UntilTerminates ==
    (upc = "run" /\ now > uend) ~> (upc = "done")

\* the part of C6 the code keeps: no idle tick or heartbeat is yielded, and no frame
\* is yielded after the deadline
C6_OnlyFrames ==
    \A i \in 1..Len(uout) : uout[i].some

\* C6 without liveness: the deadline has passed, the stream has polled an empty bus
\* again and again, and it has not ended
C6_SilentBusStuck ==
    ~(upc = "run" /\ now > uend /\ upolls = MaxPolls /\ data[UntilConsumer] = <<>>)

(***************************************************************************)
(* Properties of the ISO-TP engine.                                        *)
(***************************************************************************)
\* the responding thread exists
PeerPresent == proc["Y"] # IsoProc(<<>>, <<>>)
AllFinished == \A e \in Endpoints : Finished(e)

\* the segmentation of a transfer of size bytes: the length field of the first frame
\* decodes to size, the receiver takes as many consecutive frames as the sender
\* sends, and their slices start inside the request and reach its end
SegmentationAgrees(size) ==
    LET len == FirstFrameLen(BeBytes(BitOr(4096, size % 65536), 2))
        sent_frames == transport_frames(size) - 1
    IN  /\ len = size
        /\ receive_frames(len) = sent_frames
        /\ 6 + (sent_frames - 1) * 7 < size
        /\ 6 + sent_frames * 7 >= size

\* C3: ISO-TP round trip.  With both endpoints on the loopback connection, whatever
\* receive returns is exactly the byte sequence the peer passed to send, for single
\* frames and for segmented transfers, in both directions; no call fails, and when
\* both threads have finished both have received.  The transfers run for the
\* lengths 1..MaxIsoLen; for every length up to 4095 the sender and the receiver
\* agree on the segmentation (evaluated once, in an initial state).
C3_IsoRoundTrip ==
    /\ PeerPresent =>
          /\ \A e \in Endpoints :
                /\ proc[e].err = ""
                /\ proc[e].got => proc[e].out = proc[Peer(e)].request
          /\ AllFinished => \A e \in Endpoints : proc[e].got
    /\ (wire = <<>> /\ seq = 0 /\ ~PeerPresent /\ proc["X"].prog = send_receive_order
           /\ Len(proc["X"].request) = 1) =>
          \A size \in 9..MaxIsoTransfer : SegmentationAgrees(size)

\* a request of three consecutive frames was received by the responder, and its
\* answer of the same length by the requester
C3_Witness ==
    /\ AllFinished
    /\ Len(proc["X"].request) >= 21
    /\ proc["Y"].out = proc["X"].request
    /\ proc["X"].out = Respond(proc["X"].request)
    /\ proc["X"].out # proc["X"].request

\* C7: send_receive is race-free.  Every frame of the responder that starts a
\* response (a single frame or a first frame), from the moment it is published, is
\* either queued in the stream send_receive registered or is the frame its receive
\* found; receive never ends with no response.
C7_SendReceiveRaceFree ==
    PeerPresent =>
        /\ proc["X"].err # "No response"
        /\ \A i \in 1..Len(wire) :
              (wire[i].some /\ receive_find("X", wire[i])) =>
                  \/ proc["X"].found = wire[i]
                  \/ \E j \in 1..Len(streams[<<"X", "iter">>].q) :
                        streams[<<"X", "iter">>].q[j] = wire[i]

\* the response is already published and queued for the requester while its send
\* has not returned yet
C7_Witness ==
    /\ proc["X"].pc = "ret"
    /\ \E j \in 1..Len(streams[<<"X", "iter">>].q) :
          receive_find("X", streams[<<"X", "iter">>].q[j])

(***************************************************************************)
(* Properties of the J1939 transport protocol.                             *)
(***************************************************************************)
\* C4: J1939TP round trip.  When the receiving thread has finished, it has found the
\* reassembled frame, and its data is the payload that was sent; for broadcast (BAM)
\* and for destination-specific (RTS/CTS) transfers.
C4_TpRoundTrip ==
    proc.rx.pc = "done" =>
        /\ proc.rx.found.some
        /\ proc.rx.found.payload = TxPacket.payload

\* what the code keeps of C4: a frame the receiver reassembles has the data sent,
\* and below 255 frames the receiver does reassemble it
C4_TpRoundTripShort ==
    /\ proc.rx.found.some => proc.rx.found.payload = TxPacket.payload
    /\ (proc.rx.pc = "done" /\ TxSize < MaxTpTransfer - 7) => proc.rx.found.some

(***************************************************************************)
(* Properties of the simulated connection's reader.                        *)
(***************************************************************************)
\* C11: dropping a connection stops the reader.  Once a drop has returned, the
\* reader pushes no further item on the bus, whatever the reader had executed
\* when the drop happened.
C11_DropStopsReader == proc.dropped => Len(wire) = proc.atDrop

\* what the code keeps of C11: a drop after the reader's first statement lets at
\* most the push in progress through
C11_DropAfterStart == (proc.dropped /\ proc.started) => Len(wire) <= proc.atDrop + 1

\* the drop that comes before the reader's first statement does not stop it
C11_DropBeforeStart == ~(proc.dropped /\ ~proc.started /\ Len(wire) > proc.atDrop + 1)

(***************************************************************************)
(* Properties of Rp1210::send.                                             *)
(***************************************************************************)
\* C12: when send has returned without an echo of the frame, its caller has an error
\* value: a missing echo and a failed write are both an Err, and send never panics.
C12_EchoTimeoutIsErr ==
    proc.pc = "returned" => proc.outcome \in {"Ok", "Err"}

\* what the code keeps of C12: a failed write is an Err with nothing written, Ok is
\* returned only within the window, and past the window send does not go on waiting
C12_WriteErrorIsErr ==
    /\ (proc.pc = "returned" /\ wire = <<>>) => proc.outcome = "Err"
    /\ proc.outcome = "Ok" => echo_in_window(proc.clock, proc.start)
    /\ proc.outcome = "panic" => ~echo_in_window(proc.clock, proc.start)

(***************************************************************************)
(* Properties of Iso15765::send's framing.                                 *)
(***************************************************************************)
\* the frames endpoint e has transmitted, in order
SentBy(e) ==
    LET FromE(p) == p.id = send_header(e) IN SelectSeq(wire, FromE)
SendReturned(e) ==
    /\ proc[e].pc = "next"
    /\ \A i \in 1..Len(proc[e].prog) : proc[e].prog[i] # "send"

\* C13: no frame that send transmits carries more than 8 payload bytes, and a single
\* frame (high nibble 0) never declares more than 7 bytes: requests of 8 bytes and
\* more go out as a first frame and consecutive frames.
C13_FramesFitCan ==
    \A i \in 1..Len(SentBy("X")) :
        LET p == SentBy("X")[i]
        IN  /\ Len(p.payload) <= 8
            /\ IsSingle(p) => p.payload[1] <= 7

\* what the code keeps of C13: a request of up to 7 bytes is one frame on the send
\* header, [len, data, 0xFF padding], of 8 bytes; a request of 9 bytes and more is a
\* first frame and consecutive frames of 8 bytes
C13_SingleFrameUpTo7 ==
    /\ (SendReturned("X") /\ Len(proc["X"].request) <= 7 /\ proc["X"].err = "") =>
          /\ Len(SentBy("X")) = 1
          /\ SentBy("X")[1].id = 402653184 + Shl(IsoPgn, 8) + Shl(EcuAddress, 8) + TesterAddress
          /\ Len(SentBy("X")[1].payload) = 8
          /\ SentBy("X")[1].payload[1] = Len(proc["X"].request)
          /\ \A k \in 1..7 :
                SentBy("X")[1].payload[k + 1] =
                    IF k <= Len(proc["X"].request) THEN proc["X"].request[k] ELSE 255
    /\ Len(proc["X"].request) > 8 =>
          \A i \in 1..Len(SentBy("X")) :
              /\ Len(SentBy("X")[i].payload) = 8
              /\ ~IsSingle(SentBy("X")[i])

(***************************************************************************)
(* Properties of transport_send's wait for the flow control.               *)
(***************************************************************************)
\* the consecutive frames the sender has transmitted
FcConsecutiveSent ==
    LET IsCf(p) == p.id = send_header("X") /\ BitAnd(p.payload[1], 240) = 32
    IN  Len(SelectSeq(wire, IsCf))
\* the frames on the receive header since the flow control stream exists, in order
FcAnswers ==
    LET FromPeer(p) == Low24(p.id) = receive_header("X")
    IN  SelectSeq(SubSeq(wire, proc.from + 1, Len(wire)), FromPeer)

\* C14: after the first frame, an answer 0x7F fails the send with Nack, any other
\* answer than 0x30 fails it with UnexpectedFrame, and 2 s without an answer fail it
\* too; a failed send has transmitted no consecutive frame.  The send that polls its
\* flow control stream after the 2 s has failed.
C14_FlowControlFailures ==
    /\ proc.pc = "failed" => FcConsecutiveSent = 0
    /\ proc.err = "NACK" => (FcAnswers # <<>> /\ FcAnswers[1].payload[1] = 127)
    /\ proc.err = "Unexpected" => (FcAnswers # <<>> /\ FcAnswers[1].payload[1] \notin {48, 127})
    /\ proc.late => proc.pc = "failed"

\* what the code keeps of C14: the error for each answer, no consecutive frame after
\* a failure or before the flow control, and no flow control missing while one is
\* in the stream
C14_AnswerErrors ==
    /\ proc.pc = "failed" => FcConsecutiveSent = 0
    /\ proc.err = "NACK" => (FcAnswers # <<>> /\ FcAnswers[1].payload[1] = 127)
    /\ proc.err = "Unexpected" => (FcAnswers # <<>> /\ FcAnswers[1].payload[1] \notin {48, 127})
    /\ proc.pc \in {"ts_cf", "sent"} => (FcAnswers # <<>> /\ FcAnswers[1].payload[1] = 48)
    /\ FcConsecutiveSent > 0 => proc.pc \in {"ts_cf", "sent"}
    /\ proc.err = "No response to" => proc.clock > proc.end

\* the silent bus: the 2 s are over, the stream has been polled since, and the send
\* is still waiting
C14_SilentBusWaits == proc.late /\ proc.pc = "ts_fc" /\ proc.clock = MaxFcNow

(***************************************************************************)
(* Properties of Iso15765::receive's timeouts.                             *)
(***************************************************************************)
\* C15: receive never returns Ok with fewer bytes than the first frame declares: when
\* the session duration ends before the message is complete, it returns NoResponse.
C15_NoShortMessage ==
    (proc.outcome = "Ok" /\ ~IsSingle(proc.found)) =>
        Len(proc.out) = FirstFrameLen(proc.found.payload)

\* what the code keeps of C15: without a matching single or first frame in the
\* duration the result is the No response error; an Ok is a prefix of the message,
\* and the whole message when all its frames came in time
C15_NoResponseWithoutStart ==
    /\ proc.outcome = "No response" => (~proc.found.some /\ proc.clock > proc.end)
    /\ proc.outcome = "Ok" => IsPrefix(proc.out, proc.request)
    /\ (proc.outcome = "Ok" /\ ~IsSingle(proc.found)
            /\ proc.taken = receive_frames(FirstFrameLen(proc.found.payload))) =>
          proc.out = proc.request

\* a first frame, the duration over, and an Ok with part of the message
C15_ShortOk ==
    /\ proc.outcome = "Ok"
    /\ ~IsSingle(proc.found)
    /\ Len(proc.out) < FirstFrameLen(proc.found.payload)
    /\ proc.clock > proc.rxend

(***************************************************************************)
(* Properties of the RTS/CTS sender.                                       *)
(***************************************************************************)
\* the data frames the sender has transmitted from position k of the bus on
DtSince(k) ==
    LET IsDt(p) == p.id = BitOr(BitOr(418054144, Shl(dest(TpDsId), 8)), source(TpDsId))
    IN  SelectSeq(SubSeq(wire, k + 1, Len(wire)), IsDt)

\* C16: the sender does not wait for a TP.CM beyond T3: once it has polled its stream
\* after T3 without a frame on the expected id, it has returned the CTS-not-received
\* error; and a sender that failed so sent no data frame after the last block.
C16_CtsTimeout ==
    /\ proc.late => proc.tx.pc # "cts"
    /\ proc.tx.err = "CTS not received." => proc.clock > proc.end

\* what the code keeps of C16: the error is returned only past T3, when a frame comes
\* out of the stream, and no data frame goes out while the sender waits
C16_ErrorOnlyAfterT3 ==
    /\ proc.tx.err = "CTS not received." => (proc.tx.pc = "failed" /\ proc.clock > proc.end)
    /\ (proc.tx.pc \in {"rts", "cts"} /\ proc.blocks = <<>>) => DtSince(0) = <<>>

\* the silent bus: T3 is over, the stream has been polled since, the sender still waits
C16_SilentBusWaits == proc.late /\ proc.tx.pc = "cts" /\ proc.clock = MaxCtsNow


\* the frames on the expected id with control byte b that are on the bus
CmOnBus(b) ==
    LET IsCm(p) == p.id = CtsAnswer(<<b>>).id /\ p.payload[1] = b
    IN  SelectSeq(wire, IsCm)

\* C17: a ConnAbort (control byte 0xFF) from the peer makes send_tp return a failure
\* to its caller: the sender that has read it has failed, it has not crashed.
C17_AbortIsFailure == proc.tx.err = "todo" => proc.tx.pc = "failed"

\* what the code keeps of C17: the sender that read an abort stops there, after the
\* data frames of the blocks it was asked for and no other
C17_AbortStopsData ==
    proc.tx.err = "todo" =>
        /\ CmOnBus(255) # <<>>
        /\ proc.tx.pc \notin {"ds_data", "cts", "done"}

\* the data frames of block i of the sender: those between its CTS and the next one
BlockFrames(i) ==
    LET upto == IF i < Len(proc.blocks) THEN proc.blocks[i + 1].at ELSE Len(wire)
        IsDt(p) == p.id = BitOr(BitOr(418054144, Shl(dest(TpDsId), 8)), source(TpDsId))
    IN  SelectSeq(SubSeq(wire, proc.blocks[i].at + 1, upto), IsDt)
BlockDone(i) == i < Len(proc.blocks) \/ proc.tx.pc # "ds_data"
BlockExpected(i) ==
    [k \in 1..proc.blocks[i].count |->
        [some |-> TRUE, id |-> BitOr(BitOr(418054144, Shl(dest(TpDsId), 8)), source(TpDsId)),
         payload |-> IF proc.blocks[i].next + k - 1 < 1
                        \/ 7 * (proc.blocks[i].next + k - 2) > TxSize
                     THEN <<proc.blocks[i].next + k - 1>>
                     ELSE <<proc.blocks[i].next + k - 1>> \o
                          SubSeq(TxPacket.payload, 7 * (proc.blocks[i].next + k - 2) + 1,
                                 Min(7 * (proc.blocks[i].next + k - 1), TxSize))]]
\* a block of frames of the message: it starts at frame 1 or later and its last frame
\* starts within the payload
BlockInRange(i) ==
    /\ proc.blocks[i].next >= 1
    /\ 7 * (proc.blocks[i].next + proc.blocks[i].count - 2) <= TxSize

\* C19: no data frame before a CTS; for each CTS (count, next) exactly the count data
\* frames next, next+1, .., next+count-1, in that order, frame seq with the payload
\* bytes 7*(seq-1) .. 7*seq, before the sender waits again; on an end of message
\* (0x13) the sender stops with success.
C19_BlockPerCts ==
    /\ proc.blocks = <<>> => DtSince(0) = <<>>
    /\ \A i \in 1..Len(proc.blocks) :
          /\ BlockDone(i) => BlockFrames(i) = BlockExpected(i)
          /\ IsPrefix(BlockFrames(i), BlockExpected(i))
    /\ proc.tx.pc = "done" => CmOnBus(19) # <<>>

\* what the code keeps of C19: the same for every CTS for frames of the message whose
\* next + count fits a byte
C19_BlockPerCtsBelow256 ==
    /\ proc.blocks = <<>> => DtSince(0) = <<>>
    /\ \A i \in 1..Len(proc.blocks) :
          (proc.blocks[i].next + proc.blocks[i].count <= 255 /\ BlockInRange(i)) =>
              /\ BlockDone(i) => BlockFrames(i) = BlockExpected(i)
              /\ IsPrefix(BlockFrames(i), BlockExpected(i))
    /\ proc.tx.pc = "done" => CmOnBus(19) # <<>>


(***************************************************************************)
(* Properties of the RTS/CTS transfer between two threads.                 *)
(***************************************************************************)
\* C20: with a live receiver on another thread, the sender misses none of the control
\* frames the receiver emits: when the receiver has reassembled the message and sent
\* its end of message, the sender returns success, never CTS-not-received.
C20_SenderSeesEveryAnswer ==
    (proc.rx.found.some /\ dest(TxPacket.id) # 255) => proc.tx.pc # "failed"

\* what the code keeps of C20: the first CTS is never missed, the stream being
\* registered before the RTS is sent: the sender of a short message that fails has
\* sent its data frames
C20_FirstCtsSeen ==
    (dest(TxPacket.id) # 255 /\ TxSize <= MaxTpLen /\ proc.tx.pc = "failed") =>
        /\ proc.tx.err = "CTS not received."
        /\ proc.tx.sq = tp_count(TxSize) + 1

\* the receiver has the message, its end of message is on the bus, and the sender has
\* failed with CTS not received
C20_MissedEom ==
    /\ proc.rx.found.some
    /\ proc.rx.found.payload = TxPacket.payload
    /\ proc.tx.pc = "failed"
    /\ proc.tx.err = "CTS not received."


(***************************************************************************)
(* Properties of the J1939 header.                                         *)
(***************************************************************************)
\* C18: header bijection.  The priority, PGN, destination and source read back from a
\* frame built by new_packet are the ones it was built from; for a PDU2 PGN
\* (>= 0xF000) the destination is not part of the tuple.
C18_HeaderRoundTrip ==
    proc.pc = "done" =>
        /\ proc.read.priority = proc.priority
        /\ proc.read.pgn = proc.pgn
        /\ proc.read.source = proc.source
        /\ proc.pgn < 61440 => proc.read.dest = proc.dest

\* what the code keeps of C18: priority and source always; a PDU2 PGN of 16 bits; for a
\* PDU1 PGN with a zero low byte the destination, and the PGN with the destination in
\* its low byte
C18_HeaderFieldsKept ==
    proc.pc = "done" =>
        /\ proc.read.priority = proc.priority
        /\ proc.read.source = proc.source
        /\ (proc.pgn >= 61440 /\ proc.pgn <= 65535) => proc.read.pgn = proc.pgn
        /\ (proc.pgn < 61440 /\ proc.pgn % 256 = 0) =>
              /\ proc.read.dest = proc.dest
              /\ proc.read.pgn = proc.pgn + proc.dest


(***************************************************************************)
(* Properties of receive_tp as a stream transformer (SpecRtp).             *)
(***************************************************************************)
RtpLast == proc.last
RtpFrom == source(proc.last.id)
RtpOn(class) == proc.last.some /\ IdClass(proc.last.id) = class
\* the frame announces a transfer to the receiver; the frame is a data frame that
\* completes the session of its sender
RtpAnnounced ==
    /\ RtpOn(ds_control_p(ReceiverAddress))
    /\ proc.last.payload[1] \in {16, 32}
RtpCompleted(t) ==
    /\ RtpOn(IF t = "bam" THEN bam_data_p ELSE ds_data_p(ReceiverAddress))
    /\ RtpFrom \in DOMAIN proc.was[t]
    /\ RtpFrom \notin DOMAIN proc[t]
\* the answers of the receiver to sender s, on id 18ECssF9
RtpAnswerId(s) == BitOr(BitOr(418119680, Shl(s, 8)), ReceiverAddress)
RtpCts == SomePacket(RtpAnswerId(RtpFrom),
                     <<17, proc.last.payload[4], 1, 255, 255>> \o SubSeq(proc.last.payload, 6, 8))
RtpEomOf(d) == SomePacket(RtpAnswerId(RtpFrom),
                          <<19, d.size % 256, d.size \div 256, d.count, 255>> \o LeBytes(d.pgn, 3))

\* C21: receive_tp transmits only for destination-specific sessions in non-passive
\* mode: one CTS [0x11, count, 1, 0xFF, 0xFF, pgn] for each RTS to its own address
\* and one end-of-message [0x13, size, count, 0xFF, pgn] when that session
\* completes; for BAM sessions, and for every input when passive, it transmits nothing.
C21_TransmitsOnlyActiveDs ==
    proc.last.some =>
        IF proc.passive THEN proc.sent = <<>>
        ELSE IF RtpAnnounced THEN proc.sent = <<RtpCts>>
        ELSE IF RtpCompleted("ds") THEN proc.sent = <<RtpEomOf(proc.was.ds[RtpFrom])>>
        ELSE proc.sent = <<>>

\* C21, as the code has it: the CTS is sent only when not passive, the end of
\* message for every completed destination-specific session, nothing for BAM
C21_CtsOnlyActive ==
    proc.last.some =>
        IF RtpAnnounced /\ ~proc.passive THEN proc.sent = <<RtpCts>>
        ELSE IF RtpCompleted("ds") THEN proc.sent = <<RtpEomOf(proc.was.ds[RtpFrom])>>
        ELSE proc.sent = <<>>

\* a passive receiver has sent an end of message
C21_PassiveEom == proc.passive /\ RtpCompleted("ds") /\ proc.sent # <<>>


\* the table a data frame belongs to, and the sequence number its session expects
RtpDataTable ==
    IF RtpOn(bam_data_p) THEN "bam"
    ELSE IF RtpOn(ds_data_p(ReceiverAddress)) THEN "ds" ELSE "none"
RtpInSequence(t) ==
    /\ RtpFrom \in DOMAIN proc.was[t]
    /\ proc.last.payload[1] = 1 + Len(proc.was[t][RtpFrom].data) \div 7
RtpUntouched ==
    /\ proc.bam = proc.was.bam
    /\ proc.ds = proc.was.ds
    /\ proc.out = <<proc.last>>
    /\ proc.sent = <<>>
RtpAppended(t) ==
    \/ RtpCompleted(t)
    \/ /\ RtpFrom \in DOMAIN proc[t]
       /\ proc[t][RtpFrom] =
            [proc.was[t][RtpFrom] EXCEPT !.data = @ \o Tail(proc.last.payload)]
       /\ \A s \in DOMAIN proc.was[t] \ {RtpFrom} :
             s \in DOMAIN proc[t] /\ proc[t][s] = proc.was[t][s]

\* C22: a TP.DT frame is appended to the descriptor of its source address only if
\* the descriptor exists and the frame's sequence byte is 1 + buffered / 7; any other
\* data frame leaves the tables as they were, yields no reassembled frame and
\* transmits nothing.
C22_DataOnlyInSequence ==
    RtpDataTable # "none" =>
        IF RtpInSequence(RtpDataTable) THEN RtpAppended(RtpDataTable) ELSE RtpUntouched

\* C22 for sessions that announced at least one byte
C22_DataOnlyInSequenceNonEmpty ==
    (/\ RtpDataTable # "none"
     /\ RtpFrom \in DOMAIN proc.was[RtpDataTable] => proc.was[RtpDataTable][RtpFrom].size > 0)
        => IF RtpInSequence(RtpDataTable) THEN RtpAppended(RtpDataTable) ELSE RtpUntouched

\* a data frame out of sequence has completed a session that announced no bytes
C22_OutOfSequenceCompletes ==
    /\ RtpDataTable # "none"
    /\ ~RtpInSequence(RtpDataTable)
    /\ RtpCompleted(RtpDataTable)
    /\ Len(proc.out) > 1


\* the bytes buffered for the sender of the frame once the frame is handled, the
\* session it belongs to, and the frame a completed session is reassembled to:
\* (priority, announced pgn, dest, src) is 18FECAss for a broadcast of PGN 0xFECA
\* and 18D3F9ss for PGN 0xD300 sent to the receiver
RtpSession(t) == proc.was[t][RtpFrom]
RtpBuffered(t) ==
    IF RtpInSequence(t) THEN RtpSession(t).data \o Tail(proc.last.payload)
    ELSE RtpSession(t).data
RtpReached(t) ==
    /\ RtpDataTable = t
    /\ RtpFrom \in DOMAIN proc.was[t]
    /\ Len(RtpBuffered(t)) >= RtpSession(t).size
RtpPacketId(t, s) == IF t = "bam" THEN 419351040 + s ELSE 416545024 + s
RtpReassembled(t) ==
    SomePacket(RtpPacketId(t, RtpFrom), SubSeq(RtpBuffered(t), 1, RtpSession(t).size))
RtpIgnoredWithoutSession ==
    (RtpDataTable # "none" /\ RtpFrom \notin DOMAIN proc.was[RtpDataTable]) => RtpUntouched

\* C23: when the bytes buffered for a session reach the announced size the receiver
\* yields exactly one reassembled frame, the buffer truncated to size under the id
\* rebuilt from (priority, announced pgn, dest, src), directly after the completing
\* data frame, and removes the descriptor: further data frames of that sender are
\* ignored until it announces again.
C23_ReassembledDirectlyAfter ==
    /\ \A t \in RtpTables :
          IF RtpReached(t)
          THEN /\ proc.out = <<proc.last, RtpReassembled(t)>>
               /\ RtpFrom \notin DOMAIN proc[t]
          ELSE RtpDataTable = t => proc.out = <<proc.last>>
    /\ RtpIgnoredWithoutSession

\* C23 amended: the reassembled frame comes directly after the data frame for a
\* broadcast session, and after the end-of-message frame, which is yielded as well,
\* for a destination-specific session
C23_ReassembledAfterAnswer ==
    /\ \A t \in RtpTables :
          IF RtpReached(t)
          THEN /\ proc.out =
                    IF t = "bam" THEN <<proc.last, RtpReassembled(t)>>
                    ELSE <<proc.last, RtpEomOf(RtpSession(t)), RtpReassembled(t)>>
               /\ RtpFrom \notin DOMAIN proc[t]
          ELSE RtpDataTable = t => proc.out = <<proc.last>>
    /\ RtpIgnoredWithoutSession

\* a session of fifteen bytes on each table has completed with its third data frame
C23_Witness ==
    /\ RtpReached("ds")
    /\ RtpSession("ds").size = 15
    /\ Len(RtpSession("ds").data) = 14
    /\ Len(proc.out) = 3
    /\ proc.out[3].payload = SubSeq(RtpOwn("ds", 5), 1, 15)
    /\ 5 \notin DOMAIN proc.ds
    /\ 3 \in DOMAIN proc.bam
    /\ Len(proc.bam[3].data) = 7


\* the table a control frame belongs to
RtpControlTable ==
    IF RtpOn(bam_control_p) THEN "bam"
    ELSE IF RtpOn(ds_control_p(ReceiverAddress)) THEN "ds" ELSE "none"
RtpOthersKept(t) ==
    /\ \A s \in (DOMAIN proc.was[t] \cup DOMAIN proc[t]) \ {RtpFrom} :
          s \in DOMAIN proc.was[t] /\ s \in DOMAIN proc[t] /\ proc[t][s] = proc.was[t][s]
    /\ \A u \in RtpTables \ {t} : proc[u] = proc.was[u]

\* C24: after a TP.CM frame of source s the entry of s depends on that frame only:
\* an RTS or BAM leaves a fresh empty descriptor with the announced size, count and
\* pgn, whatever session was in progress, and a ConnAbort leaves no descriptor, so
\* that later data frames of s yield no reassembled frame.
C24_ControlSetsEntry ==
    /\ \A t \in RtpTables :
          RtpControlTable = t =>
             /\ proc.last.payload[1] \in {16, 32} =>
                   /\ RtpFrom \in DOMAIN proc[t]
                   /\ proc[t][RtpFrom] =
                        [size |-> proc.last.payload[2] + 256 * proc.last.payload[3],
                         count |-> proc.last.payload[4],
                         pgn |-> proc.last.payload[6] + 256 * proc.last.payload[7]
                                    + 65536 * proc.last.payload[8],
                         data |-> <<>>]
             /\ proc.last.payload[1] = 255 => RtpFrom \notin DOMAIN proc[t]
             /\ RtpOthersKept(t)
             /\ proc.out = <<proc.last>>
    /\ RtpIgnoredWithoutSession

\* a session with seven bytes buffered was overwritten by an announce of another
\* size; a session with fourteen bytes buffered was aborted
C24_Witness ==
    \/ /\ RtpControlTable = "ds"
       /\ proc.last.payload[1] = 16
       /\ RtpFrom \in DOMAIN proc.was.ds
       /\ Len(proc.was.ds[RtpFrom].data) = 7
       /\ proc.was.ds[RtpFrom].size = 9
       /\ proc.ds[RtpFrom].size = 0
    \/ /\ RtpControlTable = "bam"
       /\ proc.last.payload[1] = 255
       /\ RtpFrom \in DOMAIN proc.was.bam
       /\ Len(proc.was.bam[RtpFrom].data) = 14

\* C25: receive_tp is a transformer, not a filter: every input frame that is not a
\* TP frame is yielded exactly once, unchanged and in its place, and the only
\* frames added are those the receiver synthesises when a reassembly completes.
C25_PassThrough ==
    proc.last.some =>
        /\ proc.out # <<>>
        /\ proc.out[1] = proc.last
        /\ (RtpControlTable = "none" /\ RtpDataTable = "none") =>
              /\ proc.out = <<proc.last>>
              /\ proc.bam = proc.was.bam /\ proc.ds = proc.was.ds
              /\ proc.sent = <<>>
        /\ Len(proc.out) > 1 =>
              \E t \in RtpTables :
                 /\ RtpReached(t)
                 /\ \A i \in 2..Len(proc.out) :
                       proc.out[i] \in {RtpReassembled(t), RtpEomOf(RtpSession(t))}
                 /\ proc.out[Len(proc.out)] = RtpReassembled(t)

\* a heartbeat, and a request to send addressed to another node, pass while
\* sessions are in progress on both tables
C25_Witness ==
    /\ proc.last \in RtpOtherFrames
    /\ proc.out = <<proc.last>>
    /\ 3 \in DOMAIN proc.bam /\ Len(proc.bam[3].data) = 7
    /\ 5 \in DOMAIN proc.ds /\ Len(proc.ds[5].data) = 14

\* C26: sessions are independent per table and source address: with the data frames
\* of several transfers interleaved, each frame is appended to its own descriptor
\* only and every transfer reassembles to its own payload.
C26_SessionsIndependent ==
    /\ \A t \in RtpTables : \A s \in DOMAIN proc[t] :
          /\ Len(proc[t][s].data) % 7 = 0
          /\ proc[t][s].data = SubSeq(RtpOwn(t, s), 1, Len(proc[t][s].data))
    /\ \A t \in RtpTables :
          /\ RtpDataTable = t => RtpOthersKept(t)
          /\ RtpCompleted(t) =>
                /\ proc.out[Len(proc.out)].id = RtpPacketId(t, RtpFrom)
                /\ proc.out[Len(proc.out)].payload =
                      SubSeq(RtpOwn(t, RtpFrom), 1, RtpSession(t).size)

\* the nine bytes of sender 3 to the receiver are reassembled while its broadcast
\* and both transfers of sender 5 are under way
C26_Witness ==
    /\ RtpCompleted("ds")
    /\ RtpFrom = 3
    /\ proc.out[Len(proc.out)].payload = SubSeq(RtpOwn("ds", 3), 1, 9)
    /\ 3 \in DOMAIN proc.bam /\ Len(proc.bam[3].data) = 7
    /\ 5 \in DOMAIN proc.ds /\ Len(proc.ds[5].data) = 14
    /\ 5 \in DOMAIN proc.bam /\ Len(proc.bam[5].data) = 7


(***************************************************************************)
(* Properties of receive_tp and time (SpecT1).                             *)
(***************************************************************************)
\* the frame handled last is a data frame of a session that had data buffered, and
\* it came more than T1 after the data frame before it
T1Late ==
    /\ RtpDataTable # "none"
    /\ RtpFrom \in DOMAIN proc.was[RtpDataTable]
    /\ proc.was[RtpDataTable][RtpFrom].data # <<>>
    /\ proc.gap > T1Window

\* C27: a reassembly is terminated when the gap between consecutive TP.DT frames
\* exceeds T1: a data frame that arrives after such a gap does not extend or
\* complete the old session.
C27_T1EndsReassembly ==
    T1Late =>
        /\ proc.out = <<proc.last>>
        /\ RtpFrom \in DOMAIN proc[RtpDataTable] =>
              Len(proc[RtpDataTable][RtpFrom].data) <= Len(proc.was[RtpDataTable][RtpFrom].data)

\* C27, as the code has it: the timestamp is not read, the frame in sequence is
\* appended however late it is
C27_TimeIsNotRead ==
    (T1Late /\ RtpInSequence(RtpDataTable)) => RtpAppended(RtpDataTable)

\* the third data frame completes a session two ticks after the second
C27_LateFrameCompletes ==
    /\ T1Late
    /\ proc.gap = 2
    /\ RtpCompleted("ds")
    /\ Len(proc.out) = 3


(***************************************************************************)
(* Properties of the frames of a J1939TP transfer (SpecTp).                *)
(***************************************************************************)
\* the transport frames on the bus, without the simulator's own frames
IsTpFrame(f) == BitAnd(Shr(f.id, 16), 255) \in {235, 236}
TpWire == SelectSeq(wire, IsTpFrame)
BamDone == dest(TxPacket.id) = 255 /\ proc.tx.pc = "done"

\* what a BAM of TxSize bytes from source 0 with PGN 0xD3FF is on the bus: the
\* announce on 18ECFF00 and ceil(size / 7) data frames on 18EBFF00 numbered from 1
BamAsAnnounced ==
    LET n == (TxSize + 6) \div 7
        w == TpWire
    IN  /\ n <= 255
        /\ Len(w) = 1 + n
        /\ w[1] = SomePacket(418184960,
                             <<32, TxSize % 256, TxSize \div 256, n, 255, 255, 211, 0>>)
        /\ \A k \in 1..n :
              LET m == Min(7, TxSize - 7 * (k - 1))
              IN  /\ w[k + 1].id = 418119424
                  /\ Len(w[k + 1].payload) >= 1 + m
                  /\ w[k + 1].payload[1] = k
                  /\ SubSeq(w[k + 1].payload, 2, 1 + m)
                        = SubSeq(TxPacket.payload, 7 * (k - 1) + 1, 7 * (k - 1) + m)

\* C28: for every payload of 9..1785 bytes addressed to 0xFF, send_tp emits one
\* TP.CM [0x20, size, count, 0xFF, pgn] on 18ECFF00|src with count = ceil(size / 7),
\* then exactly count TP.DT frames on 18EBFF00|src, numbered 1..count, with the
\* payload bytes 7 * (k - 1) .. 7 * k.
C28_BamFrames == BamDone => BamAsAnnounced

\* C28 for the sizes that are no multiple of seven
C28_BamFramesOffMultiples == (BamDone /\ TxSize % 7 # 0) => BamAsAnnounced

\* a BAM of 14 bytes is announced with three frames, the third without data
C28_ThreeFramesFor14 ==
    /\ BamDone
    /\ TxSize = 14
    /\ Len(TpWire) = 4
    /\ TpWire[1].payload[4] = 3
    /\ TpWire[4].payload = <<3>>

\* C29: the 13 bytes [0, 0, 0, 1, "Something"] from source 0 to 0xFF with PGN
\* 0xD3FF are exactly three frames: 18ECFF00 [20 0D 00 02 FF FF D3 00], 18EBFF00
\* [01 00 00 00 01 S o m], 18EBFF00 [02 e t h i n g FF], the last one padded to
\* eight bytes with 0xFF.
C29_BamOf13Padded ==
    (BamDone /\ TxSize = 13) =>
        TpWire = << SomePacket(418184960, <<32, 13, 0, 2, 255, 255, 211, 0>>),
                    SomePacket(418119424, <<1, 0, 0, 0, 1, 83, 111, 109>>),
                    SomePacket(418119424, <<2, 101, 116, 104, 105, 110, 103, 255>>) >>

\* C29, as the code has it: the last data frame is seven bytes long
C29_BamOf13Unpadded ==
    (BamDone /\ TxSize = 13) =>
        TpWire = << SomePacket(418184960, <<32, 13, 0, 2, 255, 255, 211, 0>>),
                    SomePacket(418119424, <<1, 0, 0, 0, 1, 83, 111, 109>>),
                    SomePacket(418119424, <<2, 101, 116, 104, 105, 110, 103>>) >>

C29_SevenByteFrame ==
    /\ BamDone
    /\ TxSize = 13
    /\ Len(TpWire) = 3
    /\ Len(TpWire[3].payload) = 7

DsOf13Done == dest(TxPacket.id) # 255 /\ TxSize = 13 /\ proc.rx.found.some

DsOf13Frames ==
    << SomePacket(418183427, <<16, 13, 0, 2, 255, 249, 211, 0>>),
       SomePacket(418120697, <<17, 2, 1, 255, 255, 249, 211, 0>>),
       SomePacket(418117891, <<1, 0, 0, 0, 1, 83, 111, 109>>),
       SomePacket(418117891, <<2, 101, 116, 104, 105, 110, 103>>),
       SomePacket(418120697, <<19, 13, 0, 2, 255, 249, 211, 0>>) >>
SegmentedFrame(request, k) ==
    IF k = 0
    THEN <<16 + ((Len(request) \div 256) % 16), Len(request) % 256>> \o SubSeq(request, 1, 6)
    ELSE [i \in 1..8 |->
            IF i = 1 THEN 32 + (k % 16)
            ELSE IF 7 * (k - 1) + 5 + i <= Len(request) THEN request[7 * (k - 1) + 5 + i]
            ELSE 255]
Segmented(request) ==
    [i \in 1..(1 + Len(request) \div 7) |-> IsoFrame("X", SegmentedFrame(request, i - 1))]

\* the frames of the tester's request (its own flow control, sent when it receives a
\* segmented answer, left aside) are the first frames of Segmented, and all of them
\* once send has returned
SegmentedSoFar ==
    LET NotFc(p) == BitAnd(p.payload[1], 240) # 48
        frames == SelectSeq(SentBy("X"), NotFc)
    IN  /\ Len(frames) <= Len(Segmented(proc["X"].request))
        /\ frames = SubSeq(Segmented(proc["X"].request), 1, Len(frames))
        /\ SendReturned("X") => Len(frames) = Len(Segmented(proc["X"].request))

\* a consecutive frame of the tester is on the bus only after a flow control frame
\* (0x30) on the tester's receive header
AfterFlowControl ==
    \A i \in 1..Len(wire) :
        (wire[i].id = send_header("X") /\ BitAnd(wire[i].payload[1], 240) = 32) =>
            \E j \in 1..(i - 1) : /\ Low24(wire[j].id) = receive_header("X")
                                  /\ wire[j].payload[1] = 48

\* C31: a request of more than 7 bytes goes out as a first frame, then, once the flow
\* control has been received and not before, floor(len / 7) consecutive frames in
\* order, each padded to 8 bytes
C31_SegmentedAbove7 ==
    (Len(proc["X"].request) > 7 /\ proc["X"].err = "") => (SegmentedSoFar /\ AfterFlowControl)

\* what the code keeps of C31: the same for a request of more than 8 bytes, and the
\* frames of tests::send14 are 10 0E 55*6, 21 55*7, 22 55 FF*6
C31_SegmentedAbove8 ==
    /\ (Len(proc["X"].request) > 8 /\ proc["X"].err = "") => (SegmentedSoFar /\ AfterFlowControl)
    /\ LET r == [i \in 1..14 |-> 85]
       IN  /\ transport_frames(14) = 3
           /\ FirstFrame(r) = <<16, 14, 85, 85, 85, 85, 85, 85>>
           /\ ConsecutiveFrame(r, 1) = <<33, 85, 85, 85, 85, 85, 85, 85>>
           /\ ConsecutiveFrame(r, 2) = <<34, 85, 255, 255, 255, 255, 255, 255>>

\* the 8-byte request has gone out as one frame of 9 bytes
C31_EightAsSingle ==
    /\ Len(proc["X"].request) = 8
    /\ SendReturned("X")
    /\ Len(SentBy("X")) = 1
    /\ Len(SentBy("X")[1].payload) = 9
    /\ IsSingle(SentBy("X")[1])


(***************************************************************************)
(* Properties of the ISO-TP reassembly (transport_receive).                *)
(***************************************************************************)
\* ceil(n / 7)
CeilOf7(n) == IF n <= 0 THEN 0 ELSE (n + 6) \div 7

\* the bytes after the sequence byte of the first k consecutive frames of the script
RECURSIVE RxAppended(_, _)
RxAppended(request, k) ==
    IF k = 0 THEN <<>>
    ELSE RxAppended(request, k - 1) \o SubSeq(RxScript(request)[k + 1].payload, 2, 8)

\* the receiver has sent the one flow control frame [0x30, 0, 0, 0xFF*5] on its send
\* header, and nothing else
RxOneFlowControl ==
    wire = <<[some |-> TRUE,
              id |-> 402653184 + Shl(IsoPgn, 8) + Shl(TesterAddress, 8) + EcuAddress,
              payload |-> <<48, 0, 0, 255, 255, 255, 255, 255>>]>>

\* C32: on a first frame receive sends exactly one flow control before it consumes a
\* consecutive frame, starts the buffer with payload[2..8], appends payload[1..] of
\* exactly ceil((len - 6) / 7) following frames on the receive header and returns the
\* buffer truncated to len
C32_Reassembly ==
    LET len == FirstFrameLen(proc.found.payload)
    IN  /\ (proc.found.some /\ ~IsSingle(proc.found) /\ proc.taken > 0) => RxOneFlowControl
        /\ (proc.outcome = "Ok" /\ ~IsSingle(proc.found)) =>
              /\ RxOneFlowControl
              /\ proc.taken = CeilOf7(len - 6)
              /\ proc.result = SubSeq(proc.found.payload, 3, 8)
                                  \o RxAppended(proc.request, CeilOf7(len - 6))
              /\ proc.out = SubSeq(proc.result, 1, len)

\* what the code keeps of C32: the one flow control before the first frame taken, the
\* buffer of payload[2..8] and payload[1..] of the frames taken, at most
\* ceil((len - 6) / 7) of them, and the buffer truncated to len as the result
C32_ReassemblyOfTaken ==
    LET len == FirstFrameLen(proc.found.payload)
    IN  /\ (proc.found.some /\ ~IsSingle(proc.found) /\ proc.taken > 0) => RxOneFlowControl
        /\ proc.pc = "tr_take" =>
              /\ RxOneFlowControl
              /\ proc.taken <= CeilOf7(len - 6)
              /\ proc.result = SubSeq(proc.found.payload, 3, 8)
                                  \o RxAppended(proc.request, proc.taken)
        /\ (proc.outcome = "Ok" /\ ~IsSingle(proc.found)) =>
              /\ RxOneFlowControl
              /\ proc.taken <= CeilOf7(len - 6)
              /\ proc.result = SubSeq(proc.found.payload, 3, 8)
                                  \o RxAppended(proc.request, proc.taken)
              /\ proc.out = truncate(proc.result, len)
              /\ proc.taken = CeilOf7(len - 6) => proc.out = proc.request

\* the stream of transport_receive ended after one of the three consecutive frames
C32_ReturnedAfterOne ==
    /\ proc.outcome = "Ok"
    /\ FirstFrameLen(proc.found.payload) = 21
    /\ proc.taken = 1
    /\ Len(proc.out) = 13


(***************************************************************************)
(* Properties of Iso15765::receive's choice of the frame.                  *)
(***************************************************************************)
\* a single frame or a first frame on the receiver's receive header, 0xDA00F9
ScanStart(p) ==
    /\ p.id % 16777216 = 14287097
    /\ p.payload[1] \div 16 \in {0, 1}
\* the position on the bus of the first such frame, 0 if there is none
ScanFirst ==
    IF \E i \in 1..Len(proc.heard) : ScanStart(proc.heard[i])
    THEN CHOOSE i \in 1..Len(proc.heard) :
            /\ ScanStart(proc.heard[i])
            /\ \A j \in 1..(i - 1) : ~ScanStart(proc.heard[j])
    ELSE 0
\* the frames receive has polled from its stream
ScanPolled == Len(proc.heard) - Len(streams["iter"].q)

C35_OnlyNextInSequence ==
    \A i \in 1..Len(proc.took) : proc.took[i].payload[1] = 32 + (i % 16)

\* what the code does instead: the frames taken are the first frames on the receive
\* header that transport_receive's stream delivers, whatever their first byte, and
\* the bytes after it are appended
C35_AnyFrameOnHeader ==
    LET OnHeader(p) == Low24(p.id) = receive_header("Y")
        since == SelectSeq(SubSeq(proc.heard, proc.rxfrom + 1, Len(proc.heard)), OnHeader)
    IN  proc.pc \in {"tr_take", "returned"} =>
          /\ Len(proc.took) = proc.taken
          /\ proc.taken <= Len(since)
          /\ proc.took = SubSeq(since, 1, proc.taken)
          /\ proc.taken > 0 =>
                proc.result = SubSeq(proc.result, 1, Len(proc.result) - 7)
                                 \o SubSeq(proc.took[proc.taken].payload, 2, 8)

\* the first consecutive frame came twice: its bytes are twice in the message
C35_DuplicateSpliced ==
    /\ proc.outcome = "Ok"
    /\ Len(proc.took) = 2
    /\ proc.took[1] = proc.took[2]
    /\ proc.took[1].payload[1] = 33
    /\ Len(proc.out) = 14
    /\ SubSeq(proc.out, 7, 13) = SubSeq(IsoRequest(14), 7, 13)
    /\ proc.out[14] = IsoRequest(14)[7]


(***************************************************************************)
(* Properties of the sequence nibble of the segmented send.                *)
(***************************************************************************)
\* C34: the k-th consecutive frame carries the sequence nibble k mod 16 (1..15, 0,
\* 1, ..) and the 7 bytes of the request at offset 6 + 7(k-1), before and after the
\* wrap; the nibble bits of the frame counter are k mod 16 for every frame of a
\* 4000-byte request
C34_SequenceWraps ==
    /\ \A i \in 2..Len(wire) :
          LET k == i - 1
          IN  /\ wire[i].payload[1] = 32 + (k % 16)
              /\ \A b \in 1..7 :
                    wire[i].payload[1 + b] =
                        IF 6 + 7 * (k - 1) + b <= Len(proc.request)
                        THEN proc.request[6 + 7 * (k - 1) + b] ELSE 255
    /\ proc.pc = "returned" => Len(wire) = 1 + Len(proc.request) \div 7
    /\ \A k \in 1..(4000 \div 7) : BitAnd(AsU8(k), 15) = k % 16

\* the sixteenth and seventeenth consecutive frames are out: nibbles 0 and 1, bytes
\* 112..118 and 119, 120 of the request
C34_Witness ==
    /\ proc.pc = "returned"
    /\ Len(proc.request) = 120
    /\ Len(wire) = 18
    /\ wire[16].payload[1] = 47
    /\ wire[17].payload[1] = 32
    /\ wire[18].payload[1] = 33
    /\ wire[17].payload[2] = proc.request[112]
    /\ wire[18].payload = <<33, proc.request[119], proc.request[120], 255, 255, 255, 255, 255>>


(***************************************************************************)
(* Properties of send_tp_ds on the blocks a CTS asks for.                  *)
(***************************************************************************)
\* C36: whatever (count, next) a CTS carries (next = 0, next + count above 255, frames
\* past the end of the payload), send_tp_ds does not crash: it reads no byte outside
\* the payload and its u8 sum does not overflow
C36_AnyCtsIsSafe == ~(proc.tx.pc = "panic" /\ proc.tx.err \in {"slice", "overflow"})

\* what the code keeps of C36: the sender crashes on such a CTS only, in the slice of
\* the payload or in the sum, and the data frames of a block that were sent before
\* the crash are frames of the message
C36_CrashOnlyOutOfRange ==
    /\ proc.tx.err = "slice" =>
          /\ proc.tx.pc = "panic"
          /\ proc.blocks # <<>>
          /\ ~BlockInRange(Len(proc.blocks))
          /\ proc.tx.sq = 0 \/ 7 * (proc.tx.sq - 1) > TxSize
    /\ proc.tx.err = "overflow" =>
          /\ proc.tx.pc = "panic"
          /\ proc.blocks # <<>>
          /\ proc.blocks[Len(proc.blocks)].next + proc.blocks[Len(proc.blocks)].count > 255
    /\ \A i \in 1..Len(proc.blocks) : IsPrefix(BlockFrames(i), BlockExpected(i))

\* the CTS asked for one frame from frame 0: the sender has crashed in the slice
C36_CrashOnNextZero ==
    /\ proc.tx.pc = "panic"
    /\ proc.tx.err = "slice"
    /\ proc.blocks[Len(proc.blocks)].next = 0
    /\ proc.blocks[Len(proc.blocks)].count = 1


(***************************************************************************)
(* Properties of the reaping of dropped consumers.                         *)
(***************************************************************************)
\* slot c is in registry r
Registered(r, c) == \E i \in 1..Len(iters[r]) : iters[r][i] = c

\* C37: a push reaps the slots whose running flag was cleared before it began and
\* appends to no such slot.  Step by step: the step that begins a push leaves in the
\* registry exactly the slots whose flag is set, in their order, and touches no
\* FIFO; the registry does not change while a push is inside it; a cleared flag of
\* a registered slot stays cleared; and an item is appended only to the slot of the
\* registry the push is at.
C37_PushReapsDropped ==
    [][ /\ Len(log') > Len(log) =>
              /\ \A r \in Registries :
                    /\ \A i \in 1..Len(iters'[r]) : running[iters'[r][i]]
                    /\ \A c \in Consumers :
                          (Registered(r, c) /\ running[c]) =>
                              \E i \in 1..Len(iters'[r]) : iters'[r][i] = c
                    /\ Len(iters'[r]) <= Len(iters[r])
                    /\ \A i, j \in 1..Len(iters'[r]) :
                          i < j => \E k, l \in 1..Len(iters[r]) :
                                      /\ k < l
                                      /\ iters[r][k] = iters'[r][i]
                                      /\ iters[r][l] = iters'[r][j]
              /\ data' = data
        /\ \A t \in Publishers :
              ppc[t].pc = "push" => iters'[ppc[t].reg] = iters[ppc[t].reg]
        /\ \A c \in Consumers :
              (cpc[c] # "none" /\ ~running[c]) => ~running'[c]
        /\ \A c \in Consumers :
              Len(data'[c]) > Len(data[c]) =>
                  \E t \in Publishers :
                      /\ ppc[t].pc = "push"
                      /\ ppc[t].idx <= Len(iters[ppc[t].reg])
                      /\ iters[ppc[t].reg][ppc[t].idx] = c
                      /\ data'[c] = Append(data[c], ppc[t].item)
                      /\ \A d \in Consumers \ {c} : data'[d] = data[d]
      ]_vars

\* a dropped consumer has been reaped with items still in its FIFO, and a push after
\* that has delivered to the consumer that is still live
C37_Witness ==
    \E c, d \in Consumers :
        /\ cpc[c] = "dropped"
        /\ \A r \in Registries : ~Registered(r, c)
        /\ cpc[d] = "idle" /\ running[d]
        /\ \E r \in Registries : Registered(r, d)
        /\ \A t \in Publishers : ppc[t].pc = "idle"
        /\ sub[c] <= sub[d]
        /\ Len(obs[d]) + Len(data[d]) > Len(obs[c]) + Len(data[c])


(***************************************************************************)
(* Properties of the clones of a simulated connection.                     *)
(***************************************************************************)
\* C38: the drop of one clone does not stop the shared reader: while a clone is
\* alive the reader has not left its loop
C38_ReaderOutlivesClone == proc.handles # {} => proc.pc # "exited"

\* what the code keeps of C38: the reader leaves its loop only after a drop, the
\* consumer's stream stays open, and the echo of a frame sent through a surviving
\* clone is pushed on it, also once the reader is gone
C38_StreamOutlivesClone ==
    /\ proc.pc = "exited" => proc.dropped
    /\ ~proc.dropped => (proc.pc = "spawned" \/ proc.running)
    /\ \A i \in 1..Len(streams["log"].q) :
          \/ streams["log"].q[i].id = SimFrame(0).id
          \/ /\ proc.sends > 0
             /\ streams["log"].q[i] = SimEcho(SomePacket(416940281, <<3, 1, 2, 3, 255, 255, 255, 255>>))

\* the clone has been dropped, the connection is alive, its consumer has the echo of
\* a frame sent through it, and the reader has left its loop
C38_ReaderGone ==
    /\ proc.handles = {"connection"}
    /\ proc.pc = "exited"
    /\ proc.sends = 1
    /\ streams["log"].open
    /\ streams["log"].q = <<SimEcho(SomePacket(416940281, <<3, 1, 2, 3, 255, 255, 255, 255>>))>>


(***************************************************************************)
(* Properties of Slcan::send's echo.                                       *)
(***************************************************************************)
\* the echoes on the fan-out: the frames on it that are not the adapter's
SlcanEchoes ==
    LET IsEcho(p) == p \in SendFrames IN SelectSeq(streams["fan"].q, IsEcho)

\* C39: the echo of a frame is on the fan-out only after the reader/writer thread has
\* written the frame to the serial port: there are never more echoes than lines
\* written, and the k-th echo is the frame of the k-th line
C39_EchoAfterWrite ==
    /\ Len(SlcanEchoes) <= Len(wire)
    /\ \A k \in 1..Len(SlcanEchoes) : k <= Len(wire) => wire[k] = unparse(SlcanEchoes[k])

\* what the code keeps of C39: the echo is on the fan-out only after the frame's line
\* has been put in the outbound FIFO; the lines are written in the order of the
\* sends, each once, and the echoes are published in that order
C39_EchoAfterEnqueue ==
    /\ Len(SlcanEchoes) <= Len(wire) + Len(proc.outbound)
    /\ wire \o proc.outbound = [k \in 1..Len(proc.sends) |-> unparse(proc.sends[k])]
    /\ SlcanEchoes = SubSeq(proc.sends, 1, Len(SlcanEchoes))
    /\ Len(proc.sends) - Len(SlcanEchoes) = (IF proc.spc = "echo" THEN 1 ELSE 0)
    /\ \A p \in SendFrames : parse_result(unparse(p)) = p

\* send has returned its echo, the connection has been dropped and the reader/writer
\* thread has left its loop: the frame was never written
C39_EchoOfUnsentFrame ==
    /\ Len(SlcanEchoes) = 1
    /\ wire = <<>>
    /\ Len(proc.outbound) = 1
    /\ proc.wpc = "exited"


(***************************************************************************)
(* Properties of the UDS command builder.                                  *)
(***************************************************************************)
\* the bytes of a value, most significant first: 1, 2, 3, 4 or 8 of them
UdsWidth(kind) ==
    IF kind = "u8" THEN 1 ELSE IF kind = "u16" THEN 2 ELSE IF kind = "u24" THEN 3
    ELSE IF kind = "u32" THEN 4 ELSE 8
UdsBigEndian(kind, d) ==
    IF kind = "u64" THEN BeBytes(d.hi, 4) \o BeBytes(d.lo, 4) ELSE BeBytes(d, UdsWidth(kind))
RECURSIVE UdsBigEndianAll(_, _)
UdsBigEndianAll(kind, values) ==
    IF values = <<>> THEN <<>>
    ELSE UdsBigEndian(kind, Head(values)) \o UdsBigEndianAll(kind, Tail(values))
\* the bytes the last operation appended
UdsAppended ==
    SubSeq(proc.raw, Len(proc.ops[Len(proc.ops)].before) + 1, Len(proc.raw))

\* C40: an operation of the builder appends each of its values as 1 (u8), 2 (u16),
\* 3 (u24), 4 (u32) or 8 (u64) bytes, most significant first, after the service id
\* and what was appended before, which it leaves as it was
C40_FixedWidthBigEndian ==
    /\ proc.pc = "built" => (Len(proc.raw) >= 1 /\ proc.raw[1] \in UdsServices)
    /\ proc.ops # <<>> =>
          LET op == proc.ops[Len(proc.ops)]
          IN  /\ SubSeq(proc.raw, 1, Len(op.before)) = op.before
              /\ UdsAppended = UdsBigEndianAll(op.kind, op.values)

\* what the code keeps of C40: the same for u8, u16, u24 and u32; a u64 is appended
\* as the 7 low bytes of its 8, most significant first
C40_SevenBytesOfU64 ==
    /\ proc.pc = "built" => (Len(proc.raw) >= 1 /\ proc.raw[1] \in UdsServices)
    /\ proc.ops # <<>> =>
          LET op == proc.ops[Len(proc.ops)]
          IN  /\ SubSeq(proc.raw, 1, Len(op.before)) = op.before
              /\ op.kind # "u64" => UdsAppended = UdsBigEndianAll(op.kind, op.values)
              /\ op.kind = "u64" =>
                    /\ Len(UdsAppended) = 7 * Len(op.values)
                    /\ \A v \in 1..Len(op.values) :
                          SubSeq(UdsAppended, 7 * v - 6, 7 * v)
                              = SubSeq(UdsBigEndian("u64", op.values[v]), 2, 8)
    /\ builder_push(<<34>>, "u16", <<61840>>) = <<34, 241, 144>>

\* build(0x22).u64(&[0x0102030405060708]) is 22 02 03 04 05 06 07 08
C40_U64WithoutTopByte ==
    /\ proc.raw = <<34, 2, 3, 4, 5, 6, 7, 8>>
    /\ Len(proc.ops) = 1
    /\ proc.ops[1].kind = "u64"
    /\ proc.ops[1].values = <<[hi |-> 16909060, lo |-> 84281096]>>

====
